---- MODULE Spec2Model ----
(***************************************************************************)
(* The Allwinner sunxi-g2d V4L2 mem2mem driver as a state machine.         *)
(*                                                                         *)
(* State: the per-file contexts (struct sunxi_g2d_ctx) with their two      *)
(* frame descriptors, the videobuf2 queues of each context, the mem2mem    *)
(* job queue and current context, the device's register file and the       *)
(* engine behind it.  One action per ioctl / callback / interrupt.         *)
(*                                                                         *)
(* A register value is a set of <<field, value>> pairs: a single bit is    *)
(* <<name, 1>>, a multi-bit field <<name, v>> with v # 0, a raw 32-bit     *)
(* word <<"WORD", n>> with n # 0.  Or-ing disjoint fields is set union,    *)
(* clearing bits is set difference, the all-zero word is {}.               *)
(***************************************************************************)
EXTENDS Integers, Sequences, FiniteSets, TLC

VARIABLES
    open,       \* open[c]: the file of context c is open (g2d_open .. g2d_release)
    ctx,        \* ctx[c]: struct sunxi_g2d_ctx of context c
    vq,         \* vq[c][t]: the vb2 queue of type t of context c and its m2m ready list
    job_queue,  \* m2m_dev->job_queue: contexts with TRANS_QUEUED, head first
    curr_ctx,   \* m2m_dev->curr_ctx (0 = NULL)
    regs,       \* the register file, register name -> value
    hw,         \* the mixer engine: "idle" or "busy"
    pm,         \* runtime PM: usage count, power state, clocks and reset line
    oops,       \* a kernel NULL dereference happened in an ioctl (dev_mutex is never released)
    act,        \* what the last handler was, its inputs and its result
    wlog,       \* the register accesses of the last handler, in order
    job,        \* the job handed to device_run: its context, its operation, its start writes
    ncfg        \* number of configuration calls made so far

vars == <<open, ctx, vq, job_queue, curr_ctx, regs, hw, pm, oops, act, wlog, job, ncfg>>

----------------------------------------------------------------------------
(* Bounds of the model *)

\* configuration calls (s_fmt, s_selection, s_ctrl, reqbufs) per behaviour
MaxCfgCalls == 2
\* buffers a REQBUFS call allocates per queue
MaxBufs == 1

Ctxs == {1, 2}
Types == {"OUTPUT", "CAPTURE"}

----------------------------------------------------------------------------
(* 32-bit arithmetic.  A 32-bit word is kept as the integer in                *)
(* -2^31 .. 2^31 - 1 that its bit pattern reads as in two's complement, so     *)
(* 0xffffffff is -1; a signed field (s32) is then its own value.  All          *)
(* operations work on the two 16-bit halves and wrap modulo 2^32.              *)

Lo16(a) == a % 65536
Hi16(a) == ((a - Lo16(a)) \div 65536) % 65536

Join(hi, lo) == IF hi >= 32768 THEN (hi - 65536) * 65536 + lo ELSE hi * 65536 + lo

Add32(a, b) ==
    LET lo == Lo16(a) + Lo16(b)
        hi == Hi16(a) + Hi16(b) + (lo \div 65536)
    IN  Join(hi % 65536, lo % 65536)

RECURSIVE BitAnd(_, _)
\* a & b of two non-negative integers
BitAnd(a, b) ==
    IF a = 0 \/ b = 0 THEN 0
    ELSE (IF a % 2 = 1 /\ b % 2 = 1 THEN 1 ELSE 0) + 2 * BitAnd(a \div 2, b \div 2)

BitAnd32(a, b) == Join(BitAnd(Hi16(a), Hi16(b)), BitAnd(Lo16(a), Lo16(b)))

\* ~a
BitNot32(a) == -1 - a

BitOr32(a, b) == BitNot32(BitAnd32(BitNot32(a), BitNot32(b)))

Sub32(a, b) == Add32(a, Add32(BitNot32(b), 1))

\* the product of two 16-bit numbers as <<high half, low half>>
Mul16(x, y) ==
    LET a == x * (y % 256)
        b == x * (y \div 256)
        lo == (b % 256) * 256 + (a % 65536)
    IN  << ((b \div 256) + (a \div 65536) + (lo \div 65536)) % 65536, lo % 65536 >>

Mul32(a, b) ==
    LET ll == Mul16(Lo16(a), Lo16(b))
        cross == Mul16(Hi16(a), Lo16(b))[2] + Mul16(Lo16(a), Hi16(b))[2]
    IN  Join((ll[1] + cross) % 65536, ll[2])

\* a << 16
Shl16(a) == Join(Lo16(a), 0)

\* a >> n for 0 < n < 16, the word being unsigned
Shr32(a, n) ==
    Join(Hi16(a) \div (2^n), (Lo16(a) \div (2^n)) + (Hi16(a) % (2^n)) * (2^(16 - n)))

\* unsigned a < b and a > b
Ult(a, b) == Hi16(a) < Hi16(b) \/ (Hi16(a) = Hi16(b) /\ Lo16(a) < Lo16(b))
Ugt(a, b) == Ult(b, a)

Min(S) == CHOOSE x \in S : \A y \in S : x <= y

\* clamp() of unsigned words
clamp(v, lo, hi) == IF Ult(v, lo) THEN lo ELSE IF Ugt(v, hi) THEN hi ELSE v

----------------------------------------------------------------------------
(* sunxi_g2d.h, sunxi_g2d_hw.h: limits and format ids *)

G2D_MIN_WIDTH == 8
G2D_MIN_HEIGHT == 8
G2D_MAX_WIDTH == 2048
G2D_MAX_HEIGHT == 2048

G2D_FORMAT_BGRX8888 == 7

G2D_RECTFILL == 0
G2D_BITBLT == 1

G2D_PIXEL_ALPHA == 0

DEF_IMG_W == 800
DEF_IMG_H == 480
\* 0xffff0100
DEF_RECTFILL_COLOR == -65280
DEF_RECTFILL_COLOR_ALPHA == 255

g2d_supported_fmts ==
    << [fourcc |-> "XBGR32", depth |-> 32, hw_id |-> G2D_FORMAT_BGRX8888] >>

NUM_SUPPORTED_FMTS == Len(g2d_supported_fmts)

\* index of the first catalog entry whose fourcc matches, 0 for NULL
find_fmt(pixelformat) ==
    LET hit == {i \in 1..NUM_SUPPORTED_FMTS : g2d_supported_fmts[i].fourcc = pixelformat}
    IN  IF hit = {} THEN 0 ELSE Min(hit)

\* &ctx->src, &ctx->dst or ERR_PTR(-EINVAL)
get_frame(type) ==
    CASE type = "OUTPUT" -> "src"
      [] type = "CAPTURE" -> "dst"
      [] OTHER -> "ERR"

----------------------------------------------------------------------------
(* Records *)

ZeroRect == [left |-> 0, top |-> 0, width |-> 0, height |-> 0]

\* a struct g2d_frame of a kzalloc'ed context
ZeroFrame ==
    [pixelformat |-> "NONE", width |-> 0, height |-> 0, flags |-> 0,
     bytesperline |-> 0, sizeimage |-> 0,
     premult_alpha |-> FALSE, alpha_bld_mode |-> 0, alignment |-> 0,
     sel |-> ZeroRect]

ZeroCtx ==
    [src |-> ZeroFrame, dst |-> ZeroFrame,
     rectfill_color |-> 0, rectfill_color_alpha |-> 0, chosen_g2d_op |-> 0]

NoAct ==
    [op |-> "none", c |-> 0, type |-> "-", target |-> "-", ret |-> "-",
     sel |-> ZeroRect, val |-> 0,
     run |-> 0,        \* the context g2d_device_run was called for, 0 for none
     run_at |-> 0,     \* the index in wlog of the first access of that run
     src_done |-> <<>>, dst_done |-> <<>>, finished |-> 0]

Act(op, c, type, ret) == [NoAct EXCEPT !.op = op, !.c = c, !.type = type, !.ret = ret]

----------------------------------------------------------------------------
(* Controls *)

CtrlIds ==
    {"OP_SELECT", "IN_ALPHA_MODE", "OUT_ALPHA_MODE", "IN_ALIGNMENT", "OUT_ALIGNMENT",
     "RECTFILL_COLOR", "RECTFILL_COLOR_ALPHA"}

\* .type, .min, .max, .def of each entry of g2d_ctrls[]
g2d_ctrls(id) ==
    CASE id = "OP_SELECT"      -> [type |-> "MENU", min |-> 0, max |-> 1, def |-> 0]
      [] id = "IN_ALPHA_MODE"  -> [type |-> "MENU", min |-> 0, max |-> 2, def |-> 0]
      [] id = "OUT_ALPHA_MODE" -> [type |-> "MENU", min |-> 0, max |-> 2, def |-> 0]
      [] id = "IN_ALIGNMENT"   -> [type |-> "INTEGER", min |-> 1, max |-> 64, def |-> 1]
      [] id = "OUT_ALIGNMENT"  -> [type |-> "INTEGER", min |-> 1, max |-> 64, def |-> 1]
      [] id = "RECTFILL_COLOR" ->
            [type |-> "U32", min |-> 0, max |-> -1, def |-> DEF_RECTFILL_COLOR]
      [] id = "RECTFILL_COLOR_ALPHA" ->
            [type |-> "U8", min |-> 0, max |-> 255, def |-> DEF_RECTFILL_COLOR_ALPHA]

\* a try_ctrl that lets every value through
try_ctrl_accept_all(id, val) == "0"

\* -EINVAL for an alignment that is not a power of two: (val) & (val - 1)
g2d_try_ctrl(id, val) ==
    IF id \in {"IN_ALIGNMENT", "OUT_ALIGNMENT"} /\ BitAnd(val, val - 1) # 0
    THEN "-EINVAL" ELSE "0"

\* the context after g2d_s_ctrl stored the value
g2d_s_ctrl(cx, id, val) ==
    CASE id = "OP_SELECT"      -> [cx EXCEPT !.chosen_g2d_op = val]
      [] id = "IN_ALPHA_MODE"  -> [cx EXCEPT !.src.alpha_bld_mode = val]
      [] id = "OUT_ALPHA_MODE" -> [cx EXCEPT !.dst.alpha_bld_mode = val]
      [] id = "IN_ALIGNMENT"   -> [cx EXCEPT !.src.alignment = val]
      [] id = "OUT_ALIGNMENT"  -> [cx EXCEPT !.dst.alignment = val]
      [] id = "RECTFILL_COLOR" -> [cx EXCEPT !.rectfill_color = val]
      [] id = "RECTFILL_COLOR_ALPHA" -> [cx EXCEPT !.rectfill_color_alpha = val]
      [] OTHER -> cx

\* the control framework's range check of a new value, before try_ctrl: menus
\* refuse a value out of range, integers (s32) are clamped to it, and the
\* unsigned types are clamped as unsigned words
ctrl_validate(id, val) ==
    LET c == g2d_ctrls(id)
    IN  CASE c.type = "MENU" ->
               [ret |-> IF val < c.min \/ val > c.max THEN "-ERANGE" ELSE "0", val |-> val]
          [] c.type = "INTEGER" ->
               [ret |-> "0",
                val |-> IF val < c.min THEN c.min ELSE IF val > c.max THEN c.max ELSE val]
          [] OTHER -> [ret |-> "0", val |-> clamp(val, c.min, c.max)]

\* VIDIOC_S_CTRL on a context: validate, try_ctrl, and only then s_ctrl
set_ctrl(cx, id, val) ==
    LET v == ctrl_validate(id, val)
        t == IF v.ret # "0" THEN v.ret ELSE g2d_try_ctrl(id, v.val)
    IN  [ret |-> t, ctx |-> IF t = "0" THEN g2d_s_ctrl(cx, id, v.val) ELSE cx]

RECURSIVE ctrl_handler_setup(_, _)
\* v4l2_ctrl_handler_setup: s_ctrl with the default of every control
ctrl_handler_setup(cx, ids) ==
    IF ids = {} THEN cx
    ELSE LET id == CHOOSE i \in ids : TRUE
         IN  ctrl_handler_setup(g2d_s_ctrl(cx, id, g2d_ctrls(id).def), ids \ {id})

\* the context g2d_open builds
g2d_open_ctx ==
    LET src == [ZeroFrame EXCEPT !.pixelformat = "XBGR32", !.width = DEF_IMG_W,
                                 !.height = DEF_IMG_H, !.premult_alpha = TRUE,
                                 !.alpha_bld_mode = G2D_PIXEL_ALPHA, !.alignment = 1]
        dst == [src EXCEPT !.sel = [left |-> 200, top |-> 120, width |-> 400, height |-> 240]]
    IN  ctrl_handler_setup([ZeroCtx EXCEPT !.src = src, !.dst = dst], CtrlIds)

----------------------------------------------------------------------------
(* Formats *)

V4L2_PIX_FMT_FLAG_PREMUL_ALPHA == 1

\* what reading fmt->depth gives in g2d_try_fmt: the entry's depth, or, with
\* fmt == NULL, a kernel oops or whatever word lies at that address
DepthReads(pixelformat) ==
    IF find_fmt(pixelformat) # 0
    THEN {[oops |-> FALSE, depth |-> g2d_supported_fmts[find_fmt(pixelformat)].depth]}
    ELSE {[oops |-> TRUE, depth |-> 0], [oops |-> FALSE, depth |-> 0],
          [oops |-> FALSE, depth |-> 16]}

\* the v4l2_pix_format g2d_try_fmt leaves in *f; rd is what fmt->depth read
g2d_try_fmt(pix, rd) ==
    LET fmt == find_fmt(pix.pixelformat)
        pixelformat == IF fmt = 0 THEN g2d_supported_fmts[1].fourcc ELSE pix.pixelformat
        width == clamp(pix.width, G2D_MIN_WIDTH, G2D_MAX_WIDTH)
        height == clamp(pix.height, G2D_MIN_HEIGHT, G2D_MAX_HEIGHT)
        bytesperline == Shr32(Mul32(width, rd.depth), 3)
    IN  [pixelformat |-> pixelformat, width |-> width, height |-> height,
         flags |-> pix.flags, bytesperline |-> bytesperline,
         sizeimage |-> Mul32(height, bytesperline)]

\* vb2_is_busy: buffers are allocated on the queue
vb2_is_busy(q) == q.num_buffers > 0

\* an s_fmt that stores the format before it looks at the queue
s_fmt_store_first(cx, queues, type, pix, rd) ==
    LET p == g2d_try_fmt(pix, rd)
        frm == get_frame(type)
    IN  IF frm = "ERR" THEN [ret |-> "-EINVAL", ctx |-> cx]
        ELSE [ret |-> IF vb2_is_busy(queues[type]) THEN "-EBUSY" ELSE "0",
              ctx |-> [cx EXCEPT ![frm].pixelformat = p.pixelformat,
                                 ![frm].width = p.width,
                                 ![frm].height = p.height,
                                 ![frm].flags = p.flags,
                                 ![frm].bytesperline = p.bytesperline,
                                 ![frm].sizeimage = p.sizeimage]]

\* g2d_s_fmt once g2d_try_fmt returned: the result and the context
g2d_s_fmt(cx, queues, type, pix, rd) ==
    LET p == g2d_try_fmt(pix, rd)
        frm == get_frame(type)
    IN  IF frm = "ERR" THEN [ret |-> "-EINVAL", ctx |-> cx]
        ELSE IF vb2_is_busy(queues[type]) THEN [ret |-> "-EBUSY", ctx |-> cx]
        ELSE [ret |-> "0",
              ctx |-> [cx EXCEPT ![frm].pixelformat = p.pixelformat,
                                 ![frm].width = p.width,
                                 ![frm].height = p.height,
                                 ![frm].flags = p.flags,
                                 ![frm].bytesperline = p.bytesperline,
                                 ![frm].sizeimage = p.sizeimage,
                                 ![frm].premult_alpha =
                                     (BitAnd(p.flags, V4L2_PIX_FMT_FLAG_PREMUL_ALPHA) # 0)]]

----------------------------------------------------------------------------
(* Selections *)

\* g2d_try_selection: sel.left and sel.top are s32, sel.width, sel.height and the
\* frame's width and height are u32, so the sums and the comparisons are unsigned
g2d_try_selection(cx, type, target, r) ==
    LET frm == get_frame(type)
    IN  IF frm = "ERR" THEN "-EINVAL"
        ELSE IF type # "OUTPUT" /\ target # "COMPOSE" THEN "-EINVAL"
        ELSE IF type = "OUTPUT" /\ target # "CROP" THEN "-EINVAL"
        ELSE IF r.top < 0 \/ r.left < 0 THEN "-EINVAL"
        ELSE IF Ugt(r.left, Sub32(cx[frm].width, 1)) \/ Ugt(r.top, Sub32(cx[frm].height, 1))
             THEN "-EINVAL"
        ELSE IF Ugt(Add32(r.left, r.width), Sub32(cx[frm].width, 1)) THEN "-EINVAL"
        ELSE IF Ugt(Add32(r.top, r.height), Sub32(cx[frm].height, 1)) THEN "-EINVAL"
        ELSE "0"

g2d_s_selection(cx, type, target, r) ==
    LET ret == g2d_try_selection(cx, type, target, r)
    IN  IF ret # "0" THEN [ret |-> ret, ctx |-> cx]
        ELSE [ret |-> "0",
              ctx |-> [cx EXCEPT ![get_frame(type)].sel =
                          [left |-> r.left, top |-> r.top,
                           width |-> r.width, height |-> r.height]]]

----------------------------------------------------------------------------
(* sunxi_g2d_hw.c: register access.  Every access is logged as              *)
(* [reg, op, val]: op "write" stores val, "set" or-s val in (one read, one   *)
(* write), "clr" and-s its complement in (one read, one write), "read"       *)
(* reads.                                                                    *)

g2d_read(reg) == [reg |-> reg, op |-> "read", val |-> {}]
g2d_write(reg, val) == [reg |-> reg, op |-> "write", val |-> val]
g2d_set_bits(reg, bits) == [reg |-> reg, op |-> "set", val |-> bits]
g2d_clr_bits(reg, bits) == [reg |-> reg, op |-> "clr", val |-> bits]

Bit(name) == {<<name, 1>>}
FIELD_PREP(field, v) == IF v = 0 THEN {} ELSE {<<field, v>>}
Word(n) == IF n = 0 THEN {} ELSE {<<"WORD", n>>}

\* the value of a register after one logged access
RegAfter(old, w) ==
    CASE w.op = "write" -> w.val
      [] w.op = "set"   -> old \cup w.val
      [] w.op = "clr"   -> old \ w.val
      [] OTHER          -> old

RECURSIVE RegsAfter(_, _)
\* the register file after a sequence of accesses
RegsAfter(r, log) ==
    IF log = <<>> THEN r
    ELSE LET w == Head(log)
         IN  RegsAfter([r EXCEPT ![w.reg] = RegAfter(r[w.reg], w)], Tail(log))

RegNames ==
    {"G2D_SCLK_GATE", "G2D_HCLK_GATE", "G2D_AHB_RESET", "G2D_MIXER_INT", "G2D_MIXER_CTL",
     "V0_ATTCTL", "V0_MBSIZE", "V0_SIZE", "V0_COOR", "V0_PITCH0", "V0_PITCH1", "V0_PITCH2",
     "V0_LADDR0", "V0_LADDR1", "V0_LADDR2", "V0_FILLC",
     "UI0_ATTR", "UI0_FILLC", "UI1_ATTR", "UI1_FILLC", "UI2_ATTR", "UI2_FILLC",
     "BLD_EN_CTL", "BLD_PREMUL_CTL", "BLD_CH_ISIZE0", "BLD_CH_ISIZE1",
     "BLD_CH_OFFSET0", "BLD_CH_OFFSET1", "BLD_OUT_COLOR", "BLD_OUT_SIZE", "ROP_CTL",
     "WB_ATT", "WB_SIZE", "WB_PITCH0", "WB_PITCH1", "WB_PITCH2",
     "WB_LADD0", "WB_LADD1", "WB_LADD2"}

G2D_AHB_MIXER_RESET == Bit("MIXER_RESET")
G2D_AHB_ROT_RESET == Bit("ROT_RESET")
G2D_MIXER_INT_FINISH_IRQ_EN == Bit("FINISH_IRQ_EN")
G2D_MIXER_INT_IRQ_PENDING == Bit("IRQ_PENDING")
G2D_MIXER_CTL_START == Bit("START")
V0_ATTCTL_FILLCOLOR_EN == Bit("FILLCOLOR_EN")

g2d_hw_open ==
    << g2d_set_bits("G2D_SCLK_GATE", Bit("SCLK_MIXER") \cup Bit("SCLK_ROT")),
       g2d_set_bits("G2D_HCLK_GATE", Bit("HCLK_MIXER") \cup Bit("HCLK_ROT")),
       g2d_set_bits("G2D_AHB_RESET", G2D_AHB_MIXER_RESET \cup G2D_AHB_ROT_RESET) >>

g2d_hw_close ==
    << g2d_write("G2D_SCLK_GATE", {}),
       g2d_write("G2D_HCLK_GATE", {}),
       g2d_write("G2D_AHB_RESET", {}) >>

g2d_hw_reset ==
    << g2d_write("G2D_AHB_RESET", {}),
       g2d_set_bits("G2D_AHB_RESET", G2D_AHB_MIXER_RESET \cup G2D_AHB_ROT_RESET) >>

g2d_mixer_irq_enable ==
    << g2d_write("G2D_MIXER_INT", G2D_MIXER_INT_FINISH_IRQ_EN) >>

\* a query that reports completion whatever the pending bit says
irq_query_always(r) ==
    [ret |-> 1,
     log |-> << g2d_read("G2D_MIXER_INT"),
                g2d_clr_bits("G2D_MIXER_INT",
                    G2D_MIXER_INT_IRQ_PENDING \cup G2D_MIXER_INT_FINISH_IRQ_EN) >>]

\* a query that acknowledges before it looks at the pending bit
irq_query_ack_first(r) ==
    [ret |-> IF G2D_MIXER_INT_IRQ_PENDING \subseteq r["G2D_MIXER_INT"] THEN 1 ELSE 0,
     log |-> << g2d_read("G2D_MIXER_INT"),
                g2d_clr_bits("G2D_MIXER_INT",
                    G2D_MIXER_INT_IRQ_PENDING \cup G2D_MIXER_INT_FINISH_IRQ_EN) >>]

\* the return value and the accesses of g2d_mixer_irq_query on register file r
g2d_mixer_irq_query(r) ==
    IF G2D_MIXER_INT_IRQ_PENDING \subseteq r["G2D_MIXER_INT"]
    THEN [ret |-> 1,
          log |-> << g2d_read("G2D_MIXER_INT"),
                     g2d_clr_bits("G2D_MIXER_INT",
                         G2D_MIXER_INT_IRQ_PENDING \cup G2D_MIXER_INT_FINISH_IRQ_EN) >>]
    ELSE [ret |-> 0, log |-> << g2d_read("G2D_MIXER_INT") >>]

\* a reset of the mixer that takes the rotate block down with it
reset_both_blocks ==
    << g2d_clr_bits("G2D_AHB_RESET", G2D_AHB_MIXER_RESET \cup G2D_AHB_ROT_RESET),
       g2d_set_bits("G2D_AHB_RESET", G2D_AHB_MIXER_RESET \cup G2D_AHB_ROT_RESET) >>

g2d_mixer_reset ==
    << g2d_clr_bits("G2D_AHB_RESET", G2D_AHB_MIXER_RESET),
       g2d_set_bits("G2D_AHB_RESET", G2D_AHB_MIXER_RESET) >>

----------------------------------------------------------------------------
(* sunxi_g2d_hw.c: format layout and geometry *)

G2D_FORMAT_BGR888 == 9
G2D_FORMAT_BGRA5551 == 19
G2D_FORMAT_BGRA1010102 == 23
G2D_FORMAT_YUV422UVC_V1U1V0U0 == 36
G2D_FORMAT_YUV422_PLANAR == 38
G2D_FORMAT_YUV420UVC_V1U1V0U0 == 40
G2D_FORMAT_YUV420_PLANAR == 42
G2D_FORMAT_YUV411UVC_V1U1V0U0 == 44
G2D_FORMAT_YUV411_PLANAR == 46

v4l2_fmt_to_hw_id(pixelformat) ==
    LET fmt == find_fmt(pixelformat)
    IN  IF fmt # 0 THEN g2d_supported_fmts[fmt].hw_id ELSE G2D_FORMAT_BGRX8888

\* (ycnt, ucnt, vcnt) of a hardware format id
fmt2yuvcnt(format) ==
    LET cnt(y, u, v) == [ycnt |-> y, ucnt |-> u, vcnt |-> v]
    IN  IF format <= G2D_FORMAT_BGRX8888 THEN cnt(4, 0, 0)
        ELSE IF format <= G2D_FORMAT_BGR888 THEN cnt(3, 0, 0)
        ELSE IF format <= G2D_FORMAT_BGRA5551 THEN cnt(2, 0, 0)
        ELSE IF format <= G2D_FORMAT_BGRA1010102 THEN cnt(4, 0, 0)
        ELSE IF format <= 35 THEN cnt(2, 0, 0)
        ELSE IF format <= 37 THEN cnt(1, 2, 0)
        ELSE IF format = 38 THEN cnt(1, 1, 1)
        ELSE IF format <= 41 THEN cnt(1, 2, 0)
        ELSE IF format = 42 THEN cnt(1, 1, 1)
        ELSE IF format <= 45 THEN cnt(1, 2, 0)
        ELSE IF format = 46 THEN cnt(1, 1, 1)
        ELSE IF format = 48 THEN cnt(1, 0, 0)
        ELSE IF format <= 54 THEN cnt(2, 4, 0)
        ELSE IF format <= 57 THEN cnt(6, 0, 0)
        ELSE cnt(0, 0, 0)

\* rounding down to a multiple of a: x & ~(a - 1)
align_down(x, a) == BitAnd32(x, BitNot32(Sub32(a, 1)))

\* the kernel's ALIGN(x, a) on 32 bits: (x + (a - 1)) & ~(a - 1)
ALIGN(x, a) == BitAnd32(Add32(x, Sub32(a, 1)), BitNot32(Sub32(a, 1)))

\* the values an automatic variable that was never assigned can hold
UninitWords == {0, 3, -1}

\* what g2d_vlayer_set and g2d_wb_set can read from the variable their 4:1:1
\* branch leaves unassigned; every other branch assigns cw, cx and cy
UninitFor(fmt_hw_id) ==
    IF fmt_hw_id >= G2D_FORMAT_YUV411UVC_V1U1V0U0 /\ fmt_hw_id <= G2D_FORMAT_YUV411_PLANAR
    THEN UninitWords ELSE {0}

UninitReads(pixelformat) == UninitFor(v4l2_fmt_to_hw_id(pixelformat))

\* cw, cx, cy of g2d_vlayer_set: the chroma width is taken from the selection
\* width, and the 4:1:1 branch leaves cw unassigned (un)
vlayer_chroma(fmt_hw_id, frm, un) ==
    IF fmt_hw_id >= G2D_FORMAT_YUV422UVC_V1U1V0U0 /\ fmt_hw_id <= G2D_FORMAT_YUV422_PLANAR
    THEN [cw |-> Shr32(frm.sel.width, 1), cx |-> Shr32(frm.sel.left, 1), cy |-> frm.sel.top]
    ELSE IF fmt_hw_id >= G2D_FORMAT_YUV420UVC_V1U1V0U0
            /\ fmt_hw_id <= G2D_FORMAT_YUV420_PLANAR
    THEN [cw |-> Shr32(frm.sel.width, 1), cx |-> Shr32(frm.sel.left, 1),
          cy |-> Shr32(frm.sel.top, 1)]
    ELSE IF fmt_hw_id >= G2D_FORMAT_YUV411UVC_V1U1V0U0
            /\ fmt_hw_id <= G2D_FORMAT_YUV411_PLANAR
    THEN [cw |-> un, cx |-> Shr32(frm.sel.left, 2), cy |-> frm.sel.top]
    ELSE [cw |-> 0, cx |-> 0, cy |-> 0]

\* cw, cx, cy of g2d_wb_set: the chroma width is taken from the frame width,
\* and the 4:1:1 branch assigns left >> 2 to cw and leaves cx unassigned (un)
wb_chroma(fmt_hw_id, frm, un) ==
    IF fmt_hw_id >= G2D_FORMAT_YUV422UVC_V1U1V0U0 /\ fmt_hw_id <= G2D_FORMAT_YUV422_PLANAR
    THEN [cw |-> Shr32(frm.width, 1), cx |-> Shr32(frm.sel.left, 1), cy |-> frm.sel.top]
    ELSE IF fmt_hw_id >= G2D_FORMAT_YUV420UVC_V1U1V0U0
            /\ fmt_hw_id <= G2D_FORMAT_YUV420_PLANAR
    THEN [cw |-> Shr32(frm.width, 1), cx |-> Shr32(frm.sel.left, 1), cy |-> Shr32(frm.sel.top, 1)]
    ELSE IF fmt_hw_id >= G2D_FORMAT_YUV411UVC_V1U1V0U0
            /\ fmt_hw_id <= G2D_FORMAT_YUV411_PLANAR
    THEN [cw |-> Shr32(frm.sel.left, 2), cx |-> un, cy |-> frm.sel.top]
    ELSE [cw |-> 0, cx |-> 0, cy |-> 0]

----------------------------------------------------------------------------
(* sunxi_g2d_hw.c: the register programming of one fill *)

\* a fill-colour step that writes the layer control word instead of setting
\* its bit in it
fc_set_overwrite(layer_no, color_value) ==
    IF layer_no = 0
    THEN << g2d_write("V0_ATTCTL", V0_ATTCTL_FILLCOLOR_EN),
            g2d_write("V0_FILLC", Word(color_value)) >>
    ELSE << >>

g2d_fc_set(layer_no, color_value) ==
    CASE layer_no = 0 -> << g2d_set_bits("V0_ATTCTL", V0_ATTCTL_FILLCOLOR_EN),
                            g2d_write("V0_FILLC", Word(color_value)) >>
      [] layer_no = 1 -> << g2d_set_bits("UI0_ATTR", Bit("BIT4")),
                            g2d_write("UI0_FILLC", Word(color_value)) >>
      [] layer_no = 2 -> << g2d_set_bits("UI1_ATTR", Bit("BIT4")),
                            g2d_write("UI1_FILLC", Word(color_value)) >>
      [] layer_no = 3 -> << g2d_set_bits("UI2_ATTR", Bit("BIT4")),
                            g2d_write("UI2_FILLC", Word(color_value)) >>
      [] OTHER -> << >>

g2d_bldin_set(frm, pipe_no) ==
    LET rect_x == 0
        rect_y == 0
        rect_w == frm.sel.width
        rect_h == frm.sel.height
        size == BitOr32(Shl16(Sub32(rect_h, 1)), Sub32(rect_w, 1))
        offs == BitOr32(Shl16(IF rect_y = 0 THEN 0 ELSE Sub32(rect_y, 1)),
                        IF rect_x = 0 THEN 0 ELSE Sub32(rect_x, 1))
    IN  (IF pipe_no = 0
         THEN << g2d_set_bits("BLD_EN_CTL", Bit("PIPE0_EN")) >>
              \o (IF frm.premult_alpha
                  THEN << g2d_set_bits("BLD_PREMUL_CTL", Bit("PIPE0_ALPHA_MODE")) >>
                  ELSE << >>)
         ELSE << g2d_set_bits("BLD_EN_CTL", Bit("PIPE1_EN")) >>
              \o (IF frm.premult_alpha
                  THEN << g2d_set_bits("BLD_PREMUL_CTL", Bit("PIPE1_ALPHA_MODE")) >>
                  ELSE << >>))
        \o << g2d_write(IF pipe_no # 0 THEN "BLD_CH_ISIZE1" ELSE "BLD_CH_ISIZE0", Word(size)),
              g2d_write(IF pipe_no # 0 THEN "BLD_CH_OFFSET1" ELSE "BLD_CH_OFFSET0",
                        Word(offs)) >>

\* g2d_bld_cs_set from the point where fmt_hw_id is known
bld_cs_set_as(fmt_hw_id) ==
    IF fmt_hw_id <= G2D_FORMAT_BGRA1010102
    THEN << g2d_clr_bits("BLD_OUT_COLOR", Bit("ALPHA_MODE")) >>
    ELSE IF fmt_hw_id <= G2D_FORMAT_YUV411_PLANAR
    THEN << g2d_set_bits("BLD_OUT_COLOR", Bit("ALPHA_MODE")) >>
    ELSE << >>

g2d_bld_cs_set(frm) == bld_cs_set_as(v4l2_fmt_to_hw_id(frm.pixelformat))

\* g2d_wb_set from the point where fmt_hw_id is known; addr is addr[3] as a
\* 1-based tuple; un is what an unassigned cx reads
wb_set_as(fmt_hw_id, frm, addr, un) ==
    LET tmp == FIELD_PREP("WIDTH", IF frm.sel.width = 0 THEN 0 ELSE Sub32(frm.sel.width, 1))
               \cup FIELD_PREP("HEIGHT",
                               IF frm.sel.height = 0 THEN 0 ELSE Sub32(frm.sel.height, 1))
        ch == wb_chroma(fmt_hw_id, frm, un)
        n == fmt2yuvcnt(fmt_hw_id)
        pitch0 == ALIGN(Mul32(n.ycnt, frm.width), frm.alignment)
        pitch1 == ALIGN(Mul32(n.ucnt, ch.cw), frm.alignment)
        pitch2 == ALIGN(Mul32(n.vcnt, ch.cw), frm.alignment)
        addr0 == Add32(Add32(addr[1], Mul32(pitch0, frm.sel.top)), Mul32(n.ycnt, frm.sel.left))
        addr1 == Add32(Add32(addr[2], Mul32(pitch1, ch.cy)), Mul32(n.ucnt, ch.cx))
        addr2 == Add32(Add32(addr[3], Mul32(pitch2, ch.cy)), Mul32(n.vcnt, ch.cx))
    IN  << g2d_write("WB_ATT", Word(fmt_hw_id)),
           g2d_write("WB_SIZE", tmp),
           g2d_write("BLD_OUT_SIZE", tmp),
           IF frm.premult_alpha
           THEN g2d_set_bits("BLD_OUT_COLOR", Bit("PREMUL_EN"))
           ELSE g2d_clr_bits("BLD_OUT_COLOR", Bit("PREMUL_EN")),
           g2d_write("WB_PITCH0", Word(pitch0)),
           g2d_write("WB_PITCH1", Word(pitch1)),
           g2d_write("WB_PITCH2", Word(pitch2)),
           g2d_write("WB_LADD0", Word(addr0)),
           g2d_write("WB_LADD1", Word(addr1)),
           g2d_write("WB_LADD2", Word(addr2)) >>

g2d_wb_set(frm, addr, un) == wb_set_as(v4l2_fmt_to_hw_id(frm.pixelformat), frm, addr, un)

\* g2d_vlayer_set from the point where fmt_hw_id is known; un is what an
\* unassigned cw reads
vlayer_set_as(fmt_hw_id, frm, addr, layer_alpha, un) ==
    LET attctl == FIELD_PREP("GLBALPHA", layer_alpha)
                  \cup (IF frm.premult_alpha THEN FIELD_PREP("PREMUL_CTL", 2) ELSE {})
                  \cup FIELD_PREP("FBFMT", fmt_hw_id)
                  \cup FIELD_PREP("ALPHA_MODE", frm.alpha_bld_mode)
                  \cup FIELD_PREP("EN", 1)
        tmp == FIELD_PREP("WIDTH", IF frm.sel.width = 0 THEN 0 ELSE Sub32(frm.sel.width, 1))
               \cup FIELD_PREP("HEIGHT",
                               IF frm.sel.height = 0 THEN 0 ELSE Sub32(frm.sel.height, 1))
        ch == vlayer_chroma(fmt_hw_id, frm, un)
        n == fmt2yuvcnt(fmt_hw_id)
        pitch0 == ALIGN(Mul32(n.ycnt, frm.width), frm.alignment)
        pitch1 == ALIGN(Mul32(n.ucnt, ch.cw), frm.alignment)
        pitch2 == ALIGN(Mul32(n.vcnt, ch.cw), frm.alignment)
        addr0 == Add32(Add32(addr[1], Mul32(pitch0, frm.sel.top)), Mul32(n.ycnt, frm.sel.left))
        addr1 == Add32(Add32(addr[2], Mul32(pitch1, ch.cy)), Mul32(n.ucnt, ch.cx))
        addr2 == Add32(Add32(addr[3], Mul32(pitch2, ch.cy)), Mul32(n.vcnt, ch.cx))
    IN  << g2d_write("V0_ATTCTL", attctl),
           g2d_write("V0_MBSIZE", tmp),
           g2d_write("V0_SIZE", tmp),
           g2d_write("V0_COOR", {}),
           g2d_write("V0_PITCH0", Word(pitch0)),
           g2d_write("V0_PITCH1", Word(pitch1)),
           g2d_write("V0_PITCH2", Word(pitch2)),
           g2d_write("V0_LADDR0", Word(addr0)),
           g2d_write("V0_LADDR1", Word(addr1)),
           g2d_write("V0_LADDR2", Word(addr2)) >>

g2d_vlayer_set(frm, addr, layer_alpha, un) ==
    vlayer_set_as(v4l2_fmt_to_hw_id(frm.pixelformat), frm, addr, layer_alpha, un)

\* a rectfill that starts the engine before it arms the interrupt
rectfill_start_first(cx, addr, un) ==
    g2d_hw_reset
    \o g2d_vlayer_set(cx.dst, addr, cx.rectfill_color_alpha, un)
    \o g2d_fc_set(0, cx.rectfill_color)
    \o g2d_bldin_set(cx.dst, 0)
    \o g2d_bld_cs_set(cx.dst)
    \o g2d_wb_set(cx.dst, addr, un)
    \o << g2d_set_bits("G2D_MIXER_CTL", G2D_MIXER_CTL_START) >>
    \o g2d_mixer_irq_enable

\* the accesses of g2d_rectfill(ctx, addr), in program order, with the id
\* v4l2_fmt_to_hw_id gives its callees; unv and unw are what the unassigned
\* variable of g2d_vlayer_set and of g2d_wb_set reads
rectfill_as(fmt_hw_id, cx, addr, unv, unw) ==
    g2d_hw_reset
    \o vlayer_set_as(fmt_hw_id, cx.dst, addr, cx.rectfill_color_alpha, unv)
    \o g2d_fc_set(0, cx.rectfill_color)
    \o g2d_bldin_set(cx.dst, 0)
    \o bld_cs_set_as(fmt_hw_id)
    \o << g2d_write("ROP_CTL", Bit("BLUE_BYPASS_EN") \cup Bit("GREEN_BYPASS_EN")
                               \cup Bit("RED_BYPASS_EN") \cup Bit("ALPHA_BYPASS_EN")) >>
    \o wb_set_as(fmt_hw_id, cx.dst, addr, unw)
    \o g2d_mixer_irq_enable
    \o << g2d_set_bits("G2D_MIXER_CTL", G2D_MIXER_CTL_START) >>

g2d_rectfill(cx, addr, un) ==
    rectfill_as(v4l2_fmt_to_hw_id(cx.dst.pixelformat), cx, addr, un, un)

----------------------------------------------------------------------------
(* Runtime power management: sunxi_g2d_runtime_resume / _suspend *)

PmOff ==
    [usage |-> 0, active |-> FALSE, rstc |-> "asserted", rate_exclusive |-> 0,
     bus_clk |-> 0, mod_clk |-> 0, ram_clk |-> 0]

\* the step of runtime_resume that fails, "none" when it succeeds
ResumeFails == {"none", "reset", "rate", "bus", "mod", "ram"}

\* what one clock or reset call does to the PM state
PmCall(p, call) ==
    CASE call = "reset_control_deassert" -> [p EXCEPT !.rstc = "deasserted"]
      [] call = "reset_control_assert" -> [p EXCEPT !.rstc = "asserted"]
      [] call = "clk_set_rate_exclusive" -> [p EXCEPT !.rate_exclusive = @ + 1]
      [] call = "clk_rate_exclusive_put" -> [p EXCEPT !.rate_exclusive = @ - 1]
      [] call = "clk_prepare_enable(bus_clk)" -> [p EXCEPT !.bus_clk = @ + 1]
      [] call = "clk_disable_unprepare(bus_clk)" -> [p EXCEPT !.bus_clk = @ - 1]
      [] call = "clk_prepare_enable(mod_clk)" -> [p EXCEPT !.mod_clk = @ + 1]
      [] call = "clk_disable_unprepare(mod_clk)" -> [p EXCEPT !.mod_clk = @ - 1]
      [] call = "clk_prepare_enable(ram_clk)" -> [p EXCEPT !.ram_clk = @ + 1]
      [] call = "clk_disable_unprepare(ram_clk)" -> [p EXCEPT !.ram_clk = @ - 1]

RECURSIVE PmCalls(_, _)
PmCalls(p, calls) ==
    IF calls = << >> THEN p ELSE PmCalls(PmCall(p, Head(calls)), Tail(calls))

\* the calls of sunxi_g2d_runtime_resume that take something, in program order,
\* each with the name of the failure that stops the function there
resume_steps ==
    << <<"reset", "reset_control_deassert">>,
       <<"rate", "clk_set_rate_exclusive">>,
       <<"bus", "clk_prepare_enable(bus_clk)">>,
       <<"mod", "clk_prepare_enable(mod_clk)">>,
       <<"ram", "clk_prepare_enable(ram_clk)">> >>

\* the error labels at the end of sunxi_g2d_runtime_resume, in program order:
\* the failure that jumps to the label, and the call under it; control falls
\* through from a label to the ones after it
resume_err_labels ==
    << <<"ram", "clk_disable_unprepare(mod_clk)">>,
       <<"mod", "clk_disable_unprepare(bus_clk)">>,
       <<"bus", "clk_rate_exclusive_put">>,
       <<"rate", "reset_control_assert">> >>

\* the calls that succeeded before the failure, all of them when nothing fails
resume_taken(fail) ==
    LET k == IF fail = "none" THEN Len(resume_steps) + 1
             ELSE CHOOSE i \in 1..Len(resume_steps) : resume_steps[i][1] = fail
    IN  [i \in 1..(k - 1) |-> resume_steps[i][2]]

\* the calls of the error path: none when the first step fails (it returns at
\* once) or nothing fails, else from the label jumped to down to the end
resume_undone(fail) ==
    IF \E i \in 1..Len(resume_err_labels) : resume_err_labels[i][1] = fail
    THEN LET k == CHOOSE i \in 1..Len(resume_err_labels) : resume_err_labels[i][1] = fail
         IN  [i \in 1..(Len(resume_err_labels) - k + 1) |-> resume_err_labels[k + i - 1][2]]
    ELSE << >>

\* a resume whose ram-clock failure jumps one label too far and keeps the mod clock
resume_leaks_clock(p, fail) ==
    [ret |-> IF fail = "none" THEN "0" ELSE "-EIO",
     pm |-> PmCalls(p, resume_taken(fail)
                       \o resume_undone(IF fail = "ram" THEN "mod" ELSE fail)),
     log |-> IF fail = "none" THEN g2d_hw_open ELSE << >>]

\* the PM state, the result and the register accesses of sunxi_g2d_runtime_resume
sunxi_g2d_runtime_resume(p, fail) ==
    [ret |-> IF fail = "none" THEN "0" ELSE "-EIO",
     pm |-> PmCalls(p, resume_taken(fail) \o resume_undone(fail)),
     log |-> IF fail = "none" THEN g2d_hw_open ELSE << >>]

\* the clock and reset calls of sunxi_g2d_runtime_suspend after g2d_hw_close
suspend_calls ==
    << "clk_disable_unprepare(ram_clk)", "clk_disable_unprepare(mod_clk)",
       "clk_disable_unprepare(bus_clk)", "clk_rate_exclusive_put",
       "reset_control_assert" >>

sunxi_g2d_runtime_suspend(p) ==
    [ret |-> "0", pm |-> PmCalls(p, suspend_calls), log |-> g2d_hw_close]

\* pm_runtime_resume_and_get: resume a suspended device, take a usage count on success
pm_runtime_resume_and_get(p, fail) ==
    IF p.active THEN [ret |-> "0", pm |-> [p EXCEPT !.usage = @ + 1], log |-> << >>]
    ELSE LET r == sunxi_g2d_runtime_resume(p, fail)
         IN  IF r.ret = "0"
             THEN [ret |-> "0", pm |-> [r.pm EXCEPT !.usage = @ + 1, !.active = TRUE],
                   log |-> r.log]
             ELSE r

pm_runtime_put(p) == [p EXCEPT !.usage = @ - 1]

----------------------------------------------------------------------------
(* videobuf2 queues and the vb2_ops of the driver *)

Range(f) == {f[i] : i \in DOMAIN f}

EmptyQueue ==
    [num_buffers |-> 0, streaming |-> FALSE, start_streaming_called |-> FALSE,
     queued |-> << >>,  \* queued by user space, not yet given to the driver
     rdy |-> << >>]     \* the m2m ready list: buffers the driver owns

EmptyQueues == [t \in Types |-> EmptyQueue]

\* the bus address of buffer b of queue t of context c
BufAddr(c, t, b) ==
    1073741824 + c * 16777216 + (IF t = "CAPTURE" THEN 8388608 ELSE 0) + b * 1048576

\* v4l2_m2m_next_src_buf / _dst_buf: the head of the ready list, 0 for NULL
next_buf(qc, t) == IF qc[t].rdy = << >> THEN 0 ELSE Head(qc[t].rdy)

\* g2d_queue_cleanup(vq, state): every ready buffer of the queue's side is removed and
\* given back in that state; in state QUEUED vb2 keeps it for the next start
g2d_queue_cleanup(qc, t, state) ==
    [q |-> [qc EXCEPT ![t].rdy = << >>,
                      ![t].queued = IF state = "QUEUED" THEN qc[t].queued \o qc[t].rdy
                                    ELSE qc[t].queued],
     done |-> [i \in 1..Len(qc[t].rdy) |-> <<qc[t].rdy[i], state>>]]

\* the failing step when the call really resumes the device, else only "none"
ResumeChoices(t, p) == IF t = "OUTPUT" /\ ~p.active THEN ResumeFails ELSE {"none"}

g2d_start_streaming(qc, t, p, fail) ==
    IF t = "OUTPUT"
    THEN LET r == pm_runtime_resume_and_get(p, fail)
         IN  IF r.ret # "0"
             THEN [ret |-> r.ret, q |-> g2d_queue_cleanup(qc, t, "QUEUED").q,
                   pm |-> r.pm, log |-> r.log]
             ELSE [ret |-> "0", q |-> qc, pm |-> r.pm, log |-> r.log]
    ELSE [ret |-> "0", q |-> qc, pm |-> p, log |-> << >>]

\* g2d_stop_streaming: the output side drops its PM reference, then every ready
\* buffer of the queue is returned in the error state
g2d_stop_streaming(qc, t, p) ==
    LET cl == g2d_queue_cleanup(qc, t, "ERROR")
    IN  [q |-> cl.q, done |-> cl.done,
         pm |-> IF t = "OUTPUT" THEN pm_runtime_put(p) ELSE p]

\* vb2_start_streaming: the queued buffers are given to the driver (g2d_buf_queue puts
\* them on the ready list), then start_streaming is called
vb2_start_streaming(qc, t, p, fail) ==
    LET q1 == [qc EXCEPT ![t].rdy = qc[t].rdy \o qc[t].queued, ![t].queued = << >>,
                         ![t].start_streaming_called = TRUE]
        r == g2d_start_streaming(q1, t, p, fail)
    IN  IF r.ret = "0" THEN r
        ELSE [r EXCEPT !.q = [r.q EXCEPT ![t].start_streaming_called = FALSE]]

\* g2d_queue_setup and vb2's check of it: the plane size is the frame's sizeimage,
\* and vb2 refuses a plane size of 0
g2d_queue_setup(cx, t) ==
    IF get_frame(t) = "ERR" THEN "-EINVAL"
    ELSE IF cx[get_frame(t)].sizeimage = 0 THEN "-EINVAL" ELSE "0"

----------------------------------------------------------------------------
(* The mem2mem job callbacks and the interrupt handler *)

v4l2_m2m_num_dst_bufs_ready(qc) == Len(qc["CAPTURE"].rdy)

g2d_job_ready(cx, qc) ==
    IF cx.chosen_g2d_op = G2D_RECTFILL /\ v4l2_m2m_num_dst_bufs_ready(qc) < 1
    THEN 0 ELSE 1

\* __v4l2_m2m_try_queue: a context is put on the job queue when both queues stream,
\* it is not queued yet, a source and a destination buffer are ready and
\* job_ready agrees
v4l2_m2m_try_queue(c, cx, qc, jq) ==
    IF /\ qc["OUTPUT"].streaming /\ qc["CAPTURE"].streaming
       /\ c \notin Range(jq)
       /\ next_buf(qc, "OUTPUT") # 0
       /\ next_buf(qc, "CAPTURE") # 0
       /\ g2d_job_ready(cx, qc) = 1
    THEN Append(jq, c) ELSE jq

\* a device_run that starts a fill whatever operation is chosen
device_run_any_op(c, cx, qc, un) ==
    [oops |-> FALSE,
     log |-> g2d_rectfill(cx, <<BufAddr(c, "CAPTURE", next_buf(qc, "CAPTURE")), 0, 0>>, un),
     addr |-> <<BufAddr(c, "CAPTURE", next_buf(qc, "CAPTURE")), 0, 0>>]

\* g2d_device_run: src and dst are dereferenced whatever the operation is
g2d_device_run(c, cx, qc, un) ==
    LET src == next_buf(qc, "OUTPUT")
        dst == next_buf(qc, "CAPTURE")
    IN  IF src = 0 \/ dst = 0 THEN [oops |-> TRUE, log |-> << >>, addr |-> <<0, 0, 0>>]
        ELSE LET addr == <<BufAddr(c, "CAPTURE", dst), 0, 0>>
             IN  [oops |-> FALSE,
                  log |-> IF cx.chosen_g2d_op = G2D_RECTFILL
                          THEN g2d_rectfill(cx, addr, un) ELSE << >>,
                  addr |-> addr]

\* v4l2_m2m_job_finish(ctx c): nothing unless c is the current context; else it
\* leaves the job queue and no context is current
v4l2_m2m_job_finish(c, cur, jq) ==
    IF cur = 0 \/ cur # c THEN [curr_ctx |-> cur, jq |-> jq, finished |-> 0]
    ELSE [curr_ctx |-> 0, jq |-> SelectSeq(jq, LAMBDA y : y # c), finished |-> 1]

\* a handler that queries the device before it looks for the current context
irq_query_before_ctx(cur, r, qc) ==
    LET q == g2d_mixer_irq_query(r)
    IN  [ret |-> IF cur = 0 \/ q.ret = 0 THEN "IRQ_NONE" ELSE "IRQ_HANDLED",
         log |-> q.log, src |-> 0, dst |-> 0, finish |-> FALSE, oops |-> FALSE]

\* g2d_irq with current context cur (0 for NULL), register file r and the queues qc
\* of the current context: the return value, the accesses, the buffers removed
\* and whether the job is finished; v4l2_m2m_buf_done dereferences its buffer
g2d_irq(cur, r, qc) ==
    LET none(log) == [ret |-> "IRQ_NONE", log |-> log, src |-> 0, dst |-> 0,
                      finish |-> FALSE, oops |-> FALSE]
    IN  IF cur = 0 THEN none(<< >>)
        ELSE LET q == g2d_mixer_irq_query(r)
                 src == next_buf(qc, "OUTPUT")
                 dst == next_buf(qc, "CAPTURE")
             IN  IF q.ret = 0 THEN none(q.log)
                 ELSE IF src = 0 \/ dst = 0
                 THEN [ret |-> "oops", log |-> q.log \o g2d_mixer_reset, src |-> src,
                       dst |-> dst, finish |-> FALSE, oops |-> TRUE]
                 ELSE [ret |-> "IRQ_HANDLED", log |-> q.log \o g2d_mixer_reset,
                       src |-> src, dst |-> dst, finish |-> TRUE, oops |-> FALSE]

----------------------------------------------------------------------------
(* The engine behind the registers *)

\* a logged access that writes the start bit as 1
SetsStart(w) ==
    w.reg = "G2D_MIXER_CTL" /\ w.op \in {"write", "set"} /\ G2D_MIXER_CTL_START \subseteq w.val

StartWrites(log) == Cardinality({i \in 1..Len(log) : SetsStart(log[i])})

RECURSIVE HwAfter(_, _, _)
\* the engine after a sequence of accesses: writing the start bit starts it, holding
\* the mixer in reset (MIXER_RESET written as 0) stops it
HwAfter(h, r, log) ==
    IF log = << >> THEN h
    ELSE LET w == Head(log)
             v == RegAfter(r[w.reg], w)
             h1 == IF SetsStart(w) THEN "busy"
                   ELSE IF w.reg = "G2D_AHB_RESET" /\ w.op # "read"
                           /\ ~(G2D_AHB_MIXER_RESET \subseteq v)
                   THEN "idle" ELSE h
         IN  HwAfter(h1, [r EXCEPT ![w.reg] = v], Tail(log))

NoJob == [ctx |-> 0, op |-> 0, starts |-> 0, addr |-> <<0, 0, 0>>]

----------------------------------------------------------------------------
(* Initial state: the driver is probed, no file is open, the device is suspended *)

Init ==
    /\ open = [c \in Ctxs |-> FALSE]
    /\ ctx = [c \in Ctxs |-> ZeroCtx]
    /\ vq = [c \in Ctxs |-> EmptyQueues]
    /\ job_queue = << >>
    /\ curr_ctx = 0
    /\ regs = [r \in RegNames |-> {}]
    /\ hw = "idle"
    /\ pm = PmOff
    /\ oops = FALSE
    /\ act = NoAct
    /\ wlog = << >>
    /\ job = NoJob
    /\ ncfg = 0

\* the registers, the engine and the start count after the accesses in wlog'
Effects(fin) ==
    /\ regs' = RegsAfter(regs, wlog')
    /\ hw' = HwAfter(hw, regs, wlog')
    /\ job' = IF fin THEN NoJob ELSE [job EXCEPT !.starts = @ + StartWrites(wlog')]

\* v4l2_m2m_try_run: the context whose job is run now, 0 for none: only when no
\* context is current and the job queue is not empty
v4l2_m2m_try_run(cur, jq) == IF cur = 0 /\ jq # << >> THEN Head(jq) ELSE 0

\* v4l2_m2m_try_schedule(c) with the queues q1, after the accesses log0 of the
\* handler a: __v4l2_m2m_try_queue (not for c = 0), then v4l2_m2m_try_run, which
\* calls g2d_device_run; the context stays on the job queue while its job runs
TrySchedule(c, q1, log0, a) ==
    LET jq1 == IF c = 0 THEN job_queue ELSE v4l2_m2m_try_queue(c, ctx[c], q1[c], job_queue)
        n == v4l2_m2m_try_run(curr_ctx, jq1)
    IN  /\ job_queue' = jq1
        /\ IF n # 0
           THEN \E un \in UninitReads(ctx[n].dst.pixelformat) :
                  LET r == g2d_device_run(n, ctx[n], q1[n], un)
                  IN  /\ curr_ctx' = n
                      /\ wlog' = log0 \o r.log
                      /\ oops' = r.oops
                      /\ act' = [a EXCEPT !.run = n, !.run_at = Len(log0) + 1]
                      /\ regs' = RegsAfter(regs, wlog')
                      /\ hw' = HwAfter(hw, regs, wlog')
                      /\ job' = [ctx |-> n, op |-> ctx[n].chosen_g2d_op,
                                 starts |-> StartWrites(wlog'), addr |-> r.addr]
           ELSE /\ wlog' = log0
                /\ act' = a
                /\ Effects(FALSE)
                /\ UNCHANGED <<curr_ctx, oops>>

\* no job is taken or finished
NoSchedule(log0) ==
    /\ wlog' = log0
    /\ Effects(FALSE)
    /\ UNCHANGED <<job_queue, curr_ctx>>

\* the sequence without x
Remove(seq, x) == SelectSeq(seq, LAMBDA y : y # x)

----------------------------------------------------------------------------
(* File operations *)

\* open(): g2d_open
Open(c) ==
    /\ ~oops /\ ~open[c]
    /\ open' = [open EXCEPT ![c] = TRUE]
    /\ ctx' = [ctx EXCEPT ![c] = g2d_open_ctx]
    /\ vq' = [vq EXCEPT ![c] = EmptyQueues]
    /\ act' = Act("open", c, "-", "0")
    /\ NoSchedule(<< >>)
    /\ UNCHANGED <<pm, oops, ncfg>>

\* VIDIOC_S_FMT: g2d_s_fmt
Ioctl_s_fmt(c, type, pix) ==
    /\ ~oops /\ open[c] /\ ncfg < MaxCfgCalls
    /\ ncfg' = ncfg + 1
    /\ \E rd \in DepthReads(pix.pixelformat) :
         IF rd.oops
         THEN /\ oops' = TRUE
              /\ act' = Act("s_fmt", c, type, "oops")
              /\ UNCHANGED ctx
         ELSE LET r == g2d_s_fmt(ctx[c], vq[c], type, pix, rd)
              IN  /\ ctx' = [ctx EXCEPT ![c] = r.ctx]
                  /\ act' = Act("s_fmt", c, type, r.ret)
                  /\ UNCHANGED oops
    /\ NoSchedule(<< >>)
    /\ UNCHANGED <<open, vq, pm>>

\* VIDIOC_S_SELECTION: g2d_s_selection
Ioctl_s_selection(c, type, target, r) ==
    /\ ~oops /\ open[c] /\ ncfg < MaxCfgCalls
    /\ ncfg' = ncfg + 1
    /\ LET s == g2d_s_selection(ctx[c], type, target, r)
       IN  /\ ctx' = [ctx EXCEPT ![c] = s.ctx]
           /\ act' = [Act("s_selection", c, type, s.ret) EXCEPT !.target = target, !.sel = r]
    /\ NoSchedule(<< >>)
    /\ UNCHANGED <<open, vq, pm, oops>>

\* VIDIOC_S_CTRL: the control framework, g2d_try_ctrl, g2d_s_ctrl
Ioctl_s_ctrl(c, id, val) ==
    /\ ~oops /\ open[c] /\ ncfg < MaxCfgCalls
    /\ ncfg' = ncfg + 1
    /\ LET s == set_ctrl(ctx[c], id, val)
       IN  /\ ctx' = [ctx EXCEPT ![c] = s.ctx]
           /\ act' = [Act("s_ctrl", c, id, s.ret) EXCEPT !.val = val]
    /\ NoSchedule(<< >>)
    /\ UNCHANGED <<open, vq, pm, oops>>

\* VIDIOC_REQBUFS: v4l2_m2m_ioctl_reqbufs, g2d_queue_setup
Ioctl_reqbufs(c, t, n) ==
    /\ ~oops /\ open[c]
    /\ LET ret == IF vq[c][t].streaming THEN "-EBUSY"
                  ELSE IF n = 0 THEN "0"
                  ELSE g2d_queue_setup(ctx[c], t)
       IN  /\ vq' = IF ret = "0"
                    THEN [vq EXCEPT ![c][t].num_buffers = n, ![c][t].queued = << >>]
                    ELSE vq
           /\ act' = [Act("reqbufs", c, t, ret) EXCEPT !.val = n]
    /\ NoSchedule(<< >>)
    /\ UNCHANGED <<open, ctx, pm, oops, ncfg>>

\* VIDIOC_STREAMON: v4l2_m2m_streamon = vb2_streamon, then try_schedule on success
StreamOn(c, t) ==
    /\ ~oops /\ open[c]
    /\ LET q == vq[c]
           a == Act("streamon", c, t, "0")
       IN  IF q[t].streaming
           THEN vq' = vq /\ pm' = pm /\ TrySchedule(c, vq, << >>, a)
           ELSE IF q[t].num_buffers = 0
           THEN /\ vq' = vq /\ pm' = pm /\ oops' = oops
                /\ act' = Act("streamon", c, t, "-EINVAL")
                /\ NoSchedule(<< >>)
           ELSE IF q[t].queued = << >>
           THEN /\ vq' = [vq EXCEPT ![c][t].streaming = TRUE]
                /\ pm' = pm
                /\ TrySchedule(c, vq', << >>, a)
           ELSE \E fail \in ResumeChoices(t, pm) :
                  LET r == vb2_start_streaming(q, t, pm, fail)
                  IN  /\ pm' = r.pm
                      /\ IF r.ret = "0"
                         THEN /\ vq' = [vq EXCEPT ![c] = [r.q EXCEPT ![t].streaming = TRUE]]
                              /\ TrySchedule(c, vq', r.log, a)
                         ELSE /\ vq' = [vq EXCEPT ![c] = r.q]
                              /\ oops' = oops
                              /\ act' = Act("streamon", c, t, r.ret)
                              /\ NoSchedule(r.log)
    /\ UNCHANGED <<open, ctx, ncfg>>

\* VIDIOC_QBUF of buffer b: v4l2_m2m_qbuf = vb2_qbuf (g2d_buf_prepare, then
\* g2d_buf_queue once the queue was started; the first buffer of a streaming
\* queue starts it), then try_schedule on success
QBuf(c, t, b) ==
    /\ ~oops /\ open[c]
    /\ b \in 1..vq[c][t].num_buffers
    /\ b \notin Range(vq[c][t].queued) \cup Range(vq[c][t].rdy)
    /\ LET q == vq[c]
           a == [Act("qbuf", c, t, "0") EXCEPT !.val = b]
       IN  IF q[t].start_streaming_called
           THEN /\ vq' = [vq EXCEPT ![c][t].rdy = Append(@, b)]
                /\ pm' = pm
                /\ TrySchedule(c, vq', << >>, a)
           ELSE IF ~q[t].streaming
           THEN /\ vq' = [vq EXCEPT ![c][t].queued = Append(@, b)]
                /\ pm' = pm
                /\ TrySchedule(c, vq', << >>, a)
           ELSE \E fail \in ResumeChoices(t, pm) :
                  LET r == vb2_start_streaming([q EXCEPT ![t].queued = Append(@, b)],
                                               t, pm, fail)
                  IN  /\ pm' = r.pm
                      /\ IF r.ret = "0"
                         THEN /\ vq' = [vq EXCEPT ![c] = r.q]
                              /\ TrySchedule(c, vq', r.log, a)
                         ELSE /\ vq' = [vq EXCEPT ![c] =
                                           [r.q EXCEPT ![t].queued = Remove(@, b)]]
                              /\ oops' = oops
                              /\ act' = [a EXCEPT !.ret = r.ret]
                              /\ NoSchedule(r.log)
    /\ UNCHANGED <<open, ctx, ncfg>>

\* what __vb2_queue_cancel does to queue t of qc: g2d_stop_streaming when the queue
\* was started, then no buffer is queued and the queue does not stream
vb2_queue_cancel(qc, t, p) ==
    LET s == IF qc[t].start_streaming_called THEN g2d_stop_streaming(qc, t, p)
             ELSE [q |-> qc, done |-> << >>, pm |-> p]
    IN  [q |-> [s.q EXCEPT ![t].streaming = FALSE, ![t].start_streaming_called = FALSE,
                           ![t].queued = << >>, ![t].rdy = << >>],
         done |-> s.done, pm |-> s.pm]

\* VIDIOC_STREAMOFF: v4l2_m2m_streamoff.  v4l2_m2m_cancel_job sleeps until a
\* running job of the context is finished, so the call goes on only when the
\* context is not the current one; a context only queued leaves the job queue
StreamOff(c, t) ==
    /\ ~oops /\ open[c] /\ curr_ctx # c
    /\ LET r == vb2_queue_cancel(vq[c], t, pm)
       IN  /\ vq' = [vq EXCEPT ![c] = r.q]
           /\ pm' = r.pm
           /\ act' = [Act("streamoff", c, t, "0") EXCEPT
                         !.src_done = IF t = "OUTPUT" THEN r.done ELSE << >>,
                         !.dst_done = IF t = "CAPTURE" THEN r.done ELSE << >>]
    /\ job_queue' = Remove(job_queue, c)
    /\ wlog' = << >>
    /\ Effects(FALSE)
    /\ UNCHANGED <<open, ctx, curr_ctx, oops, ncfg>>

\* close(): g2d_release; v4l2_m2m_ctx_release cancels the job as streamoff does
\* and releases both queues
Release(c) ==
    /\ ~oops /\ open[c] /\ curr_ctx # c
    /\ LET r1 == vb2_queue_cancel(vq[c], "CAPTURE", pm)
           r2 == vb2_queue_cancel(r1.q, "OUTPUT", r1.pm)
       IN  /\ pm' = r2.pm
           /\ act' = [Act("release", c, "-", "0") EXCEPT
                         !.src_done = r2.done, !.dst_done = r1.done]
    /\ vq' = [vq EXCEPT ![c] = EmptyQueues]
    /\ open' = [open EXCEPT ![c] = FALSE]
    /\ ctx' = [ctx EXCEPT ![c] = ZeroCtx]
    /\ job_queue' = Remove(job_queue, c)
    /\ wlog' = << >>
    /\ Effects(FALSE)
    /\ UNCHANGED <<curr_ctx, oops, ncfg>>

----------------------------------------------------------------------------
(* Asynchronous steps *)

\* the work item v4l2_m2m_job_finish schedules: v4l2_m2m_try_run
JobWork ==
    /\ ~oops
    /\ v4l2_m2m_try_run(curr_ctx, job_queue) # 0
    /\ TrySchedule(0, vq, << >>, Act("job_work", 0, "-", "-"))
    /\ UNCHANGED <<open, ctx, vq, pm, ncfg>>

\* the engine finishes the operation it was started for and raises the
\* mixer's pending bit
HwFinish ==
    /\ ~oops /\ hw = "busy"
    /\ hw' = "idle"
    /\ regs' = [regs EXCEPT !["G2D_MIXER_INT"] = @ \cup G2D_MIXER_INT_IRQ_PENDING]
    /\ act' = Act("hw_finish", curr_ctx, "-", "-")
    /\ wlog' = << >>
    /\ UNCHANGED <<open, ctx, vq, job_queue, curr_ctx, pm, oops, job, ncfg>>

\* the interrupt line fires, for the engine or for another device: g2d_irq
Irq ==
    /\ ~oops
    /\ LET c == curr_ctx
           r == g2d_irq(c, regs, IF c = 0 THEN EmptyQueues ELSE vq[c])
       IN  /\ wlog' = r.log
           /\ oops' = r.oops
           /\ IF r.finish
              THEN LET q1 == [vq[c] EXCEPT !["OUTPUT"].rdy = Tail(@),
                                           !["CAPTURE"].rdy = Tail(@)]
                       f == v4l2_m2m_job_finish(c, curr_ctx, job_queue)
                   IN  /\ vq' = [vq EXCEPT ![c] = q1]
                       /\ curr_ctx' = f.curr_ctx
                       /\ job_queue' = v4l2_m2m_try_queue(c, ctx[c], q1, f.jq)
                       /\ act' = [Act("irq", c, "-", r.ret) EXCEPT
                                     !.src_done = << <<r.src, "DONE">> >>,
                                     !.dst_done = << <<r.dst, "DONE">> >>,
                                     !.finished = f.finished]
                       /\ Effects(f.finished = 1)
              ELSE /\ act' = Act("irq", c, "-", r.ret)
                   /\ Effects(FALSE)
                   /\ UNCHANGED <<vq, curr_ctx, job_queue>>
    /\ UNCHANGED <<open, ctx, pm, ncfg>>

\* the device is idle with no user left: sunxi_g2d_runtime_suspend
RuntimeSuspend ==
    /\ ~oops /\ pm.active /\ pm.usage = 0
    /\ LET r == sunxi_g2d_runtime_suspend(pm)
       IN  /\ pm' = [r.pm EXCEPT !.active = FALSE]
           /\ wlog' = r.log
    /\ act' = Act("runtime_suspend", 0, "-", "0")
    /\ Effects(FALSE)
    /\ UNCHANGED <<open, ctx, vq, job_queue, curr_ctx, oops, ncfg>>

----------------------------------------------------------------------------
(* The configuration calls of one context, with their inputs *)

\* the context of the sessions with one open file
SoloCtxs == {1}

Pix(pf, w, h, fl) == [pixelformat |-> pf, width |-> w, height |-> h, flags |-> fl]

\* S_FMT inputs: a frame smaller than the default selection, one that is
\* clamped on both sides, a format the driver does not know, a wrong type
CfgFmts ==
    {<<t, pix>> : t \in Types,
                  pix \in {Pix("XBGR32", 16, 8, 0),
                           Pix("XBGR32", 4, 3000, V4L2_PIX_FMT_FLAG_PREMUL_ALPHA),
                           Pix("YUYV", 16, 8, 0)}}
    \cup {<<"OTHER", Pix("XBGR32", 16, 8, 0)>>}

Rect(l, t, w, h) == [left |-> l, top |-> t, width |-> w, height |-> h]

\* S_SELECTION inputs: the whole frame and the rectangle just outside it for
\* the default and the small frame, negative corners, a width of 0xffffffff,
\* a wrong target and a wrong type
CfgSels ==
    {<<tt[1], tt[2], r>> :
        tt \in {<<"OUTPUT", "CROP">>, <<"CAPTURE", "COMPOSE">>},
        r \in {Rect(0, 0, DEF_IMG_W, DEF_IMG_H), Rect(DEF_IMG_W, 0, 1, 1),
               Rect(0, 0, DEF_IMG_W - 1, DEF_IMG_H - 1), Rect(0, 0, 16, 8),
               Rect(1, 1, 2, 2), Rect(-1, 0, 1, 1), Rect(0, -1, 1, 1),
               Rect(1, 0, -1, 1)}}
    \cup {<<"CAPTURE", "CROP", Rect(1, 1, 2, 2)>>, <<"OTHER", "CROP", Rect(1, 1, 2, 2)>>}

CfgCtrlVals(id) ==
    CASE id \in {"IN_ALIGNMENT", "OUT_ALIGNMENT"} -> {0, 3, 4, 65}
      [] id = "OP_SELECT" -> {G2D_BITBLT, 2}
      [] id \in {"IN_ALPHA_MODE", "OUT_ALPHA_MODE"} -> {1}
      [] id = "RECTFILL_COLOR" -> {-16776961}
      [] id = "RECTFILL_COLOR_ALPHA" -> {300}

NextCfg ==
    \E c \in SoloCtxs :
        \/ Open(c)
        \/ \E f \in CfgFmts : Ioctl_s_fmt(c, f[1], f[2])
        \/ \E x \in CfgSels : Ioctl_s_selection(c, x[1], x[2], x[3])
        \/ \E id \in CtrlIds : \E v \in CfgCtrlVals(id) : Ioctl_s_ctrl(c, id, v)
        \/ \E t \in Types, n \in 0..MaxBufs : Ioctl_reqbufs(c, t, n)

SpecCfg == Init /\ [][NextCfg]_vars

----------------------------------------------------------------------------
(* Sessions that stream and run jobs *)

\* the format both queues are given
JobPix == Pix("XBGR32", 16, 8, 0)

\* the context after open, S_FMT of JobPix on the output and on the capture queue
JobCtx ==
    LET rd == CHOOSE d \in DepthReads(JobPix.pixelformat) : TRUE
        c1 == g2d_s_fmt(g2d_open_ctx, EmptyQueues, "OUTPUT", JobPix, rd).ctx
    IN  g2d_s_fmt(c1, EmptyQueues, "CAPTURE", JobPix, rd).ctx

\* context 1 is open and has its formats set, nothing else has happened
InitJob ==
    /\ open = [c \in Ctxs |-> c = 1]
    /\ ctx = [c \in Ctxs |-> IF c = 1 THEN JobCtx ELSE ZeroCtx]
    /\ vq = [c \in Ctxs |-> EmptyQueues]
    /\ job_queue = << >>
    /\ curr_ctx = 0
    /\ regs = [r \in RegNames |-> {}]
    /\ hw = "idle"
    /\ pm = PmOff
    /\ oops = FALSE
    /\ act = NoAct
    /\ wlog = << >>
    /\ job = NoJob
    /\ ncfg = 0

\* one context: its whole life, with calls that change the operation and the
\* selection at any time.  With one context a finished job leaves nothing
\* queued, so the work item has nothing to run
Next ==
    \/ \E c \in SoloCtxs :
          \/ Open(c)
          \/ \E t \in Types : Ioctl_s_fmt(c, t, JobPix)
          \/ Ioctl_s_selection(c, "CAPTURE", "COMPOSE", Rect(1, 1, 2, 2))
          \/ Ioctl_s_ctrl(c, "OP_SELECT", G2D_BITBLT)
          \/ \E t \in Types : Ioctl_reqbufs(c, t, MaxBufs)
          \/ \E t \in Types : StreamOn(c, t)
          \/ \E t \in Types, b \in 1..MaxBufs : QBuf(c, t, b)
          \/ \E t \in Types : StreamOff(c, t)
          \/ Release(c)
    \/ HwFinish
    \/ Irq
    \/ RuntimeSuspend

Spec == InitJob /\ [][Next]_vars

\* the same sessions with a device that finishes every operation it was
\* started for and an interrupt that is delivered while it is pending
SpecLive == InitJob /\ [][Next]_vars /\ WF_vars(HwFinish) /\ WF_vars(Irq)

\* two contexts that set up their queues and submit jobs side by side
NextTwo ==
    \/ \E c \in Ctxs :
          \/ Open(c)
          \/ \E t \in Types : Ioctl_s_fmt(c, t, JobPix)
          \/ \E t \in Types : Ioctl_reqbufs(c, t, MaxBufs)
          \/ \E t \in Types : StreamOn(c, t)
          \/ \E t \in Types, b \in 1..MaxBufs : QBuf(c, t, b)
    \/ JobWork
    \/ HwFinish
    \/ Irq

SpecTwo == InitJob /\ [][NextTwo]_vars

----------------------------------------------------------------------------
(* The register programming of g2d_rectfill as a function of its inputs *)

\* hardware format ids: every id below G2D_FORMAT_MAX and some above it
GeoIds == 0..60

GeoFrame(w, h, sel, al) ==
    [g2d_open_ctx.dst EXCEPT !.width = w, !.height = h, !.sel = sel, !.alignment = al]

\* the frame after open, frames with other alignments, selections of width
\* or height 0, a frame without premultiplied alpha in another alpha mode and
\* a selection in the last pixel of the largest frame
GeoFrames ==
    {GeoFrame(DEF_IMG_W, DEF_IMG_H, Rect(200, 120, 400, 240), 1),
     GeoFrame(640, 480, Rect(16, 16, 320, 240), 8),
     GeoFrame(16, 8, Rect(1, 1, 2, 2), 4),
     GeoFrame(18, 8, Rect(3, 2, 0, 5), 16),
     GeoFrame(16, 8, Rect(3, 2, 5, 0), 1),
     [GeoFrame(16, 8, Rect(1, 1, 2, 2), 4) EXCEPT !.premult_alpha = FALSE,
                                                  !.alpha_bld_mode = 2],
     GeoFrame(G2D_MAX_WIDTH, G2D_MAX_HEIGHT,
              Rect(G2D_MAX_WIDTH - 2, G2D_MAX_HEIGHT - 2, 1, 1), 64)}

\* plane addresses: those of a buffer, and ones near the top of the 32 bits
GeoAddrs ==
    {<<BufAddr(1, "CAPTURE", 1), BufAddr(1, "CAPTURE", 1) + 4194304,
       BufAddr(1, "CAPTURE", 1) + 6291456>>,
     <<-4096, -2048, -1024>>}

InitGeo ==
    \E id \in GeoIds, f \in GeoFrames, a \in GeoAddrs :
        /\ open = [c \in Ctxs |-> c = 1]
        /\ ctx = [c \in Ctxs |-> IF c = 1 THEN [g2d_open_ctx EXCEPT !.dst = f] ELSE ZeroCtx]
        /\ vq = [c \in Ctxs |-> EmptyQueues]
        /\ job_queue = << >>
        /\ curr_ctx = 0
        /\ regs = [r \in RegNames |-> {}]
        /\ hw = "idle"
        /\ pm = PmOff
        /\ oops = FALSE
        /\ act = [NoAct EXCEPT !.op = "input", !.val = id]
        /\ wlog = << >>
        /\ job = [NoJob EXCEPT !.addr = a]
        /\ ncfg = 0

\* g2d_rectfill for the frame ctx[1].dst, the addresses job.addr and a format
\* that resolves to the id act.val
GeoRectfill ==
    /\ \E unv \in UninitFor(act.val), unw \in UninitFor(act.val) :
           wlog' = rectfill_as(act.val, ctx[1], job.addr, unv, unw)
    /\ act' = [act EXCEPT !.op = "g2d_rectfill"]
    /\ UNCHANGED <<open, ctx, vq, job_queue, curr_ctx, regs, hw, pm, oops, job, ncfg>>

\* fmt2yuvcnt for the id act.val
GeoYuvcnt ==
    /\ wlog' = << [reg |-> "fmt2yuvcnt", op |-> "ret", val |-> fmt2yuvcnt(act.val)] >>
    /\ act' = [act EXCEPT !.op = "fmt2yuvcnt"]
    /\ UNCHANGED <<open, ctx, vq, job_queue, curr_ctx, regs, hw, pm, oops, job, ncfg>>

NextGeo ==
    \/ GeoRectfill
    \/ GeoYuvcnt

SpecGeo == InitGeo /\ [][NextGeo]_vars

----------------------------------------------------------------------------
(* Properties of the job path *)

\* the accesses of the g2d_device_run of the last step
RunLog == SubSeq(wlog, act.run_at, Len(wlog))

\* the index of the first access to reg in log, 0 when there is none
FirstAt(log, reg) ==
    IF \E i \in 1..Len(log) : log[i].reg = reg
    THEN Min({i \in 1..Len(log) : log[i].reg = reg}) ELSE 0

ControlRegs == {"G2D_AHB_RESET", "G2D_MIXER_INT", "G2D_MIXER_CTL"}

Arms(w) ==
    w.reg = "G2D_MIXER_INT" /\ w.op \in {"write", "set"}
    /\ G2D_MIXER_INT_FINISH_IRQ_EN \subseteq w.val

\* C1: one run of g2d_rectfill writes in the order full reset (G2D_AHB_RESET
\* written 0, then both reset bits set), the configuration (layer, fill
\* colour, blend pipe, colourspace, ROP, write-back), the write arming the
\* finish interrupt, the write setting the start bit; nothing is configured after
\* the arming, and the start bit is never set with the interrupt enable clear
C1_RectfillOrder ==
    /\ (act.run # 0 /\ job.op = G2D_RECTFILL) =>
          LET L == RunLog
              n == Len(L)
          IN  /\ n > 4
              /\ L[1] = g2d_write("G2D_AHB_RESET", {})
              /\ L[2] = g2d_set_bits("G2D_AHB_RESET",
                                     G2D_AHB_MIXER_RESET \cup G2D_AHB_ROT_RESET)
              /\ \A i \in 3..(n - 2) : L[i].reg \notin ControlRegs
              /\ 2 < FirstAt(L, "V0_ATTCTL")
              /\ FirstAt(L, "V0_ATTCTL") < FirstAt(L, "V0_FILLC")
              /\ FirstAt(L, "V0_FILLC") < FirstAt(L, "BLD_CH_ISIZE0")
              /\ FirstAt(L, "BLD_CH_ISIZE0") < FirstAt(L, "BLD_OUT_COLOR")
              /\ FirstAt(L, "BLD_OUT_COLOR") < FirstAt(L, "ROP_CTL")
              /\ FirstAt(L, "ROP_CTL") < FirstAt(L, "WB_ATT")
              /\ FirstAt(L, "WB_ATT") < FirstAt(L, "WB_LADD0")
              /\ Arms(L[n - 1])
              /\ SetsStart(L[n])
    /\ \A i \in 1..Len(wlog) : SetsStart(wlog[i]) => i > 1 /\ Arms(wlog[i - 1])
    /\ hw = "busy" => G2D_MIXER_INT_FINISH_IRQ_EN \subseteq regs["G2D_MIXER_INT"]

C1_Witness ==
    /\ act.run # 0 /\ job.op = G2D_RECTFILL
    /\ hw = "busy"
    /\ SetsStart(wlog[Len(wlog)])

Pending(r) == G2D_MIXER_INT_IRQ_PENDING \subseteq r["G2D_MIXER_INT"]

\* C2: whatever the contexts submit and whenever interrupts come, at most one
\* job runs: g2d_device_run is entered only when no job runs, while a job runs
\* no other step programs the engine or sets the start bit, and a running job
\* ends only by the interrupt handler that found the pending bit set
C2_Serialization ==
    [][/\ act'.run # 0 =>
              /\ curr_ctx = 0 /\ job = NoJob /\ hw = "idle"
              /\ curr_ctx' = act'.run /\ job'.ctx = act'.run
       /\ curr_ctx # 0 =>
              /\ \A i \in 1..Len(wlog') :
                     wlog'[i].reg \in {"G2D_MIXER_INT", "G2D_AHB_RESET"}
              /\ StartWrites(wlog') = 0
       /\ (curr_ctx # 0 /\ curr_ctx' # curr_ctx) =>
              /\ curr_ctx' = 0
              /\ act'.op = "irq" /\ act'.ret = "IRQ_HANDLED"
              /\ Pending(regs)
       /\ (curr_ctx' = 0) = (job' = NoJob)]_vars

C2_Witness ==
    /\ curr_ctx = 1 /\ job_queue = <<1, 2>> /\ hw = "busy"
    /\ act.op = "qbuf" /\ act.c = 2

\* C3: the handler running while a job runs and the pending bit is clear
\* returns IRQ_NONE and changes nothing: no register is written, the mixer is
\* not reset, no buffer is removed or done, the job is not finished and stays
\* the running one
C3_SpuriousInterrupt ==
    [][(act'.op = "irq" /\ curr_ctx # 0 /\ ~Pending(regs)) =>
           /\ act'.ret = "IRQ_NONE"
           /\ \A i \in 1..Len(wlog') : wlog'[i].op = "read"
           /\ regs' = regs /\ hw' = hw
           /\ vq' = vq
           /\ act'.src_done = << >> /\ act'.dst_done = << >> /\ act'.finished = 0
           /\ curr_ctx' = curr_ctx /\ job_queue' = job_queue /\ job' = job]_vars

C3_Witness ==
    /\ act.op = "irq" /\ act.ret = "IRQ_NONE"
    /\ curr_ctx # 0 /\ hw = "busy" /\ ~Pending(regs)

\* the accesses of log that are not reads
Writes(log) == SelectSeq(log, LAMBDA w : w.op # "read")

\* C4: the handler running while a job runs and the pending bit is set clears
\* pending and enable of G2D_MIXER_INT in one write, then resets the mixer
\* block only, gives the source and the destination buffer back as done,
\* finishes the job exactly once and returns IRQ_HANDLED; no context is
\* current afterwards
C4_GenuineCompletion ==
    [][(act'.op = "irq" /\ curr_ctx # 0 /\ Pending(regs)) =>
           /\ act'.ret = "IRQ_HANDLED"
           /\ Writes(wlog') =
                 << g2d_clr_bits("G2D_MIXER_INT", G2D_MIXER_INT_IRQ_PENDING
                                                  \cup G2D_MIXER_INT_FINISH_IRQ_EN),
                    g2d_clr_bits("G2D_AHB_RESET", G2D_AHB_MIXER_RESET),
                    g2d_set_bits("G2D_AHB_RESET", G2D_AHB_MIXER_RESET) >>
           /\ regs'["G2D_MIXER_INT"] \cap (G2D_MIXER_INT_IRQ_PENDING
                                           \cup G2D_MIXER_INT_FINISH_IRQ_EN) = {}
           /\ regs'["G2D_AHB_RESET"] = regs["G2D_AHB_RESET"]
           /\ G2D_AHB_MIXER_RESET \subseteq regs'["G2D_AHB_RESET"]
           /\ act'.src_done = << <<Head(vq[curr_ctx]["OUTPUT"].rdy), "DONE">> >>
           /\ act'.dst_done = << <<Head(vq[curr_ctx]["CAPTURE"].rdy), "DONE">> >>
           /\ vq'[curr_ctx]["OUTPUT"].rdy = Tail(vq[curr_ctx]["OUTPUT"].rdy)
           /\ vq'[curr_ctx]["CAPTURE"].rdy = Tail(vq[curr_ctx]["CAPTURE"].rdy)
           /\ act'.finished = 1
           /\ curr_ctx' = 0 /\ job' = NoJob]_vars

C4_Witness ==
    /\ act.op = "irq" /\ act.ret = "IRQ_HANDLED" /\ act.finished = 1
    /\ curr_ctx = 0 /\ hw = "idle"

\* C5: a RectFill context is ready exactly when it has a destination buffer,
\* with or without a source buffer: whenever its queues stream and a
\* destination buffer is ready, its job is queued or running
C5_ReadyWithoutSource ==
    \A c \in Ctxs :
        (/\ open[c] /\ ctx[c].chosen_g2d_op = G2D_RECTFILL
         /\ vq[c]["OUTPUT"].streaming /\ vq[c]["CAPTURE"].streaming
         /\ v4l2_m2m_num_dst_bufs_ready(vq[c]) >= 1)
        => c \in Range(job_queue)

\* C6: the start bit is set only by the g2d_rectfill of a g2d_device_run, once for
\* each job: every write of it is the last access of such a run, a running
\* RectFill job has set it exactly once, and a job of another operation never
C6_StartOnlyByRun ==
    /\ StartWrites(wlog) > 0 =>
           /\ act.run # 0 /\ job.ctx = act.run /\ job.op = G2D_RECTFILL
           /\ StartWrites(wlog) = 1
           /\ SetsStart(wlog[Len(wlog)])
           /\ StartWrites(SubSeq(wlog, 1, act.run_at - 1)) = 0
    /\ job.ctx = 0 => job.starts = 0
    /\ (job.ctx # 0 /\ job.op = G2D_RECTFILL) => job.starts = 1
    /\ (job.ctx # 0 /\ job.op # G2D_RECTFILL) => job.starts = 0
    /\ act.op \notin {"qbuf", "streamon", "job_work"} => StartWrites(wlog) = 0

C6_Witness ==
    /\ job.ctx # 0 /\ job.op = G2D_RECTFILL /\ job.starts = 1
    /\ act.op = "irq" /\ act.ret = "IRQ_NONE"

\* C11: while a job runs, from the setting of the start bit to the interrupt
\* that completes it, no step changes a field of the running context's
\* destination frame or its fill colour and fill alpha
C11_FrameImmutableWhileRunning ==
    [][(job.ctx # 0 /\ job.starts = 1 /\ curr_ctx = job.ctx) =>
           /\ ctx'[job.ctx].dst = ctx[job.ctx].dst
           /\ ctx'[job.ctx].rectfill_color = ctx[job.ctx].rectfill_color
           /\ ctx'[job.ctx].rectfill_color_alpha = ctx[job.ctx].rectfill_color_alpha]_vars


\* C12: with a device that raises the finish interrupt once started, every
\* job that runs is finished and the driver is idle again, whatever spurious
\* interrupts come in between; no job stays the running one for ever
C12_JobCycleLiveness == (curr_ctx # 0) ~> (curr_ctx = 0)

\* C13: streaming can be stopped while the context's job runs, without
\* waiting for the interrupt: whenever a context is the running one, the
\* stop of either of its queues goes through at once
C13_StopWhileRunning ==
    \A c \in Ctxs :
        (open[c] /\ curr_ctx = c) => \A t \in Types : ENABLED StreamOff(c, t)

----------------------------------------------------------------------------
(* Properties of runtime power management *)

\* the call that gives back what call takes
PmInverse(call) ==
    CASE call = "reset_control_deassert" -> "reset_control_assert"
      [] call = "clk_set_rate_exclusive" -> "clk_rate_exclusive_put"
      [] call = "clk_prepare_enable(bus_clk)" -> "clk_disable_unprepare(bus_clk)"
      [] call = "clk_prepare_enable(mod_clk)" -> "clk_disable_unprepare(mod_clk)"
      [] call = "clk_prepare_enable(ram_clk)" -> "clk_disable_unprepare(ram_clk)"

\* the inverse calls of calls, last first
Unwind(calls) == [i \in 1..Len(calls) |-> PmInverse(calls[Len(calls) + 1 - i])]

PmFullyOn ==
    /\ pm.rstc = "deasserted" /\ pm.rate_exclusive = 1
    /\ pm.bus_clk = 1 /\ pm.mod_clk = 1 /\ pm.ram_clk = 1
    /\ regs["G2D_SCLK_GATE"] = Bit("SCLK_MIXER") \cup Bit("SCLK_ROT")
    /\ regs["G2D_HCLK_GATE"] = Bit("HCLK_MIXER") \cup Bit("HCLK_ROT")
    /\ regs["G2D_AHB_RESET"] = G2D_AHB_MIXER_RESET \cup G2D_AHB_ROT_RESET

PmFullyOff ==
    /\ pm.rstc = "asserted" /\ pm.rate_exclusive = 0
    /\ pm.bus_clk = 0 /\ pm.mod_clk = 0 /\ pm.ram_clk = 0
    /\ regs["G2D_SCLK_GATE"] = {} /\ regs["G2D_HCLK_GATE"] = {}
    /\ regs["G2D_AHB_RESET"] = {}

\* C14: after any runtime_resume (succeeding, or failing at any of its five
\* steps) and runtime_suspend calls the device is fully on or fully off; a
\* failing runtime_resume gives back exactly what it took, last first, and
\* does not call g2d_hw_open; runtime_suspend undoes a whole runtime_resume,
\* last first
C14_PowerOnOffInverse ==
    /\ IF pm.active THEN PmFullyOn ELSE PmFullyOff
    /\ act.ret = "-EIO" => (~pm.active /\ wlog = << >>)
    /\ act.op = "runtime_suspend" => (~pm.active /\ wlog = g2d_hw_close)
    /\ \A f \in ResumeFails \ {"none"} :
           /\ resume_undone(f) = Unwind(resume_taken(f))
           /\ ~pm.active => sunxi_g2d_runtime_resume(pm, f).pm = pm
           /\ sunxi_g2d_runtime_resume(pm, f).log = << >>
    /\ resume_undone("none") = << >>
    /\ sunxi_g2d_runtime_resume(pm, "none").log = g2d_hw_open
    /\ suspend_calls = Unwind(resume_taken("none"))

\* a resume has failed after the device had been on and was suspended again
C14_Witness ==
    /\ act.ret = "-EIO" /\ ~pm.active
    /\ PmFullyOff
    /\ regs["V0_ATTCTL"] # {}

----------------------------------------------------------------------------
(* Properties of format resolution and of the register geometry *)

\* the format tags of the catalog and two that are not in it
FormatTags == {g2d_supported_fmts[i].fourcc : i \in 1..NUM_SUPPORTED_FMTS} \cup {"YUYV", "NV12"}

\* C15: resolving a format tag never fails: it gives the hardware id of the
\* matching catalog entry, else G2D_FORMAT_BGRX8888 with layout (4, 0, 0); no
\* call that resolves a tag crashes, and a successful S_FMT leaves a catalog
\* format with bytesperline and sizeimage computed from that format's depth
C15_ResolveNeverFails ==
    /\ \A tag \in FormatTags :
           LET id == v4l2_fmt_to_hw_id(tag)
           IN  /\ find_fmt(tag) # 0 => id = g2d_supported_fmts[find_fmt(tag)].hw_id
               /\ find_fmt(tag) = 0 =>
                      /\ id = G2D_FORMAT_BGRX8888
                      /\ fmt2yuvcnt(id) = [ycnt |-> 4, ucnt |-> 0, vcnt |-> 0]
    /\ ~oops
    /\ act.op = "s_fmt" => act.ret \in {"0", "-EINVAL", "-EBUSY"}
    /\ (act.op = "s_fmt" /\ act.ret = "0") =>
           LET f == ctx[act.c][get_frame(act.type)]
               e == find_fmt(f.pixelformat)
           IN  /\ e # 0
               /\ f.bytesperline = Shr32(Mul32(f.width, g2d_supported_fmts[e].depth), 3)
               /\ f.sizeimage = Mul32(f.height, f.bytesperline)

\* the value of the first write to reg in log
RegWrite(log, reg) == log[FirstAt(log, reg)].val

\* the least multiple of a that is at least x
AlignUp(x, a) == ((x + a - 1) \div a) * a

\* the state holds the accesses of a g2d_rectfill
GeoRan == act.op = "g2d_rectfill"

\* C16: the layer input and the write-back are given the same luma pitch
\* align_up(y * frame width, alignment) and the plane-0 address
\* base + pitch0 * top + y * left modulo 2^32; for BGRX, 800 x 480, selection
\* (200, 120, 400, 240), alignment 1 the pitch is 3200 and the offset 384800
C16_LumaPitchAndAddress ==
    GeoRan =>
        LET f == ctx[1].dst
            y == fmt2yuvcnt(act.val).ycnt
            pitch0 == AlignUp(y * f.width, f.alignment)
            addr0 == Add32(job.addr[1], pitch0 * f.sel.top + y * f.sel.left)
        IN  /\ RegWrite(wlog, "V0_PITCH0") = Word(pitch0)
            /\ RegWrite(wlog, "WB_PITCH0") = Word(pitch0)
            /\ RegWrite(wlog, "V0_LADDR0") = Word(addr0)
            /\ RegWrite(wlog, "WB_LADD0") = Word(addr0)
            /\ (act.val = G2D_FORMAT_BGRX8888 /\ f = g2d_open_ctx.dst) =>
                   /\ pitch0 = 3200
                   /\ addr0 = Add32(job.addr[1], 384800)

C16_Witness ==
    /\ GeoRan /\ act.val = G2D_FORMAT_BGRX8888
    /\ ctx[1].dst = g2d_open_ctx.dst
    /\ RegWrite(wlog, "V0_PITCH0") = Word(3200)
    /\ RegWrite(wlog, "WB_LADD0") = Word(Add32(BufAddr(1, "CAPTURE", 1), 384800))

\* the ids of the planar and semi-planar 4:2:2, 4:2:0 and 4:1:1 families
Ids422 == G2D_FORMAT_YUV422UVC_V1U1V0U0 .. G2D_FORMAT_YUV422_PLANAR
Ids420 == G2D_FORMAT_YUV420UVC_V1U1V0U0 .. G2D_FORMAT_YUV420_PLANAR
Ids411 == G2D_FORMAT_YUV411UVC_V1U1V0U0 .. G2D_FORMAT_YUV411_PLANAR

\* cw, cx, cy of frame f by the table of the subsampling families; the table
\* gives no chroma width for 4:1:1
ChromaTable(id, f) ==
    IF id \in Ids422
    THEN [cw |-> f.width \div 2, cx |-> f.sel.left \div 2, cy |-> f.sel.top]
    ELSE IF id \in Ids420
    THEN [cw |-> f.width \div 2, cx |-> f.sel.left \div 2, cy |-> f.sel.top \div 2]
    ELSE IF id \in Ids411
    THEN [cw |-> 0, cx |-> f.sel.left \div 4, cy |-> f.sel.top]
    ELSE [cw |-> 0, cx |-> 0, cy |-> 0]

HwIdEnumerators ==
    (0 .. G2D_FORMAT_BGRA1010102) \cup (32 .. G2D_FORMAT_YUV422_PLANAR)
        \cup Ids420 \cup Ids411 \cup {48, 52, 54, 56, 57}

YuvCnt(y, u, v) == [ycnt |-> y, ucnt |-> u, vcnt |-> v]

YuvcntRan == act.op = "fmt2yuvcnt"

\* C18: fmt2yuvcnt returns non-negative counts for every id; (4,0,0) for the
\* 32-bit packed RGB ids, (3,0,0) for the 24-bit ones, (2,0,0) for the 16-bit
\* ones; (1,2,0) for the interleaved-chroma ids and (1,1,1) for the planar id
\* of the 4:2:2, 4:2:0 and 4:1:1 families; and the default (0,0,0), not the
\* counts of a family, for every id that is not an enumerator
C18_ChannelLayoutTable ==
    YuvcntRan =>
        LET id == act.val
            n == wlog[1].val
        IN  /\ n.ycnt >= 0 /\ n.ucnt >= 0 /\ n.vcnt >= 0
            /\ id \in (0 .. 7) \cup (20 .. 23) => n = YuvCnt(4, 0, 0)
            /\ id \in 8 .. 9 => n = YuvCnt(3, 0, 0)
            /\ id \in 10 .. 19 => n = YuvCnt(2, 0, 0)
            /\ id \in Ids422 \cup Ids420 \cup Ids411 =>
                   n = IF id \in {G2D_FORMAT_YUV422_PLANAR, G2D_FORMAT_YUV420_PLANAR,
                                  G2D_FORMAT_YUV411_PLANAR}
                       THEN YuvCnt(1, 1, 1)
                       ELSE YuvCnt(1, 2, 0)
            /\ id \notin HwIdEnumerators => n = YuvCnt(0, 0, 0)

\* the field of a size word for a dimension: dimension - 1, and 0 for 0
SizeField(d) == IF d = 0 THEN 0 ELSE d - 1

\* C19: for every selection of the destination frame, a width or a height of 0
\* included, each size word g2d_rectfill writes (V0_MBSIZE, V0_SIZE, WB_SIZE,
\* BLD_OUT_SIZE, BLD_CH_ISIZE0) holds height - 1 in its upper half and
\* width - 1 in its lower half, with 0 for a dimension of 0
C19_NoSizeUnderflow ==
    GeoRan =>
        LET w == SizeField(ctx[1].dst.sel.width)
            h == SizeField(ctx[1].dst.sel.height)
            fields == FIELD_PREP("WIDTH", w) \cup FIELD_PREP("HEIGHT", h)
        IN  /\ RegWrite(wlog, "V0_MBSIZE") = fields
            /\ RegWrite(wlog, "V0_SIZE") = fields
            /\ RegWrite(wlog, "WB_SIZE") = fields
            /\ RegWrite(wlog, "BLD_OUT_SIZE") = fields
            /\ RegWrite(wlog, "BLD_CH_ISIZE0") = Word(h * 65536 + w)

\* the value of field name in a register value, 0 when the field is clear
FieldOf(v, name) ==
    IF \E t \in v : t[1] = name THEN (CHOOSE t \in v : t[1] = name)[2] ELSE 0

FieldNames(v) == {t[1] : t \in v}

\* a register file the run can start from with bits of an earlier run left in
\* the layer control word and in BLD_OUT_COLOR
StaleRegs ==
    [regs EXCEPT !["V0_ATTCTL"] = FIELD_PREP("FBFMT", 63) \cup Bit("STALE"),
                 !["V0_FILLC"] = Word(1),
                 !["BLD_OUT_COLOR"] = Bit("ALPHA_MODE") \cup Bit("PREMUL_EN")]

\* C21: when g2d_rectfill sets the start bit, V0_ATTCTL holds the enable bit,
\* the format id, the alpha mode and the global alpha g2d_vlayer_set wrote
\* and also the fill-colour enable bit, and V0_FILLC holds the fill colour of
\* the context; no step writes a whole register an earlier step of the run
\* touched, or sets or clears a field an earlier step put there; BLD_OUT_COLOR
\* keeps the colourspace bit g2d_bld_cs_set chose and has the premultiply bit
\* of the frame
C21_LaterStepsKeepEarlierBits ==
    GeoRan =>
        \A r0 \in {regs, StaleRegs} :
            LET R == RegsAfter(r0, wlog)
                id == act.val
                f == ctx[1].dst
                n == Len(wlog)
            IN  /\ SetsStart(wlog[n])
                /\ R["V0_ATTCTL"] = RegWrite(wlog, "V0_ATTCTL") \cup V0_ATTCTL_FILLCOLOR_EN
                /\ FieldOf(R["V0_ATTCTL"], "EN") = 1
                /\ FieldOf(R["V0_ATTCTL"], "FBFMT") = id
                /\ FieldOf(R["V0_ATTCTL"], "ALPHA_MODE") = f.alpha_bld_mode
                /\ FieldOf(R["V0_ATTCTL"], "GLBALPHA") = ctx[1].rectfill_color_alpha
                /\ R["V0_FILLC"] = Word(ctx[1].rectfill_color)
                /\ \A i \in 1..n : \A j \in (i + 1)..n :
                       wlog[i].reg = wlog[j].reg =>
                           /\ wlog[j].op \in {"set", "clr"}
                           /\ FieldNames(wlog[j].val) \cap FieldNames(wlog[i].val) = {}
                /\ Bit("ALPHA_MODE") \subseteq R["BLD_OUT_COLOR"]
                       <=> IF id <= G2D_FORMAT_BGRA1010102 THEN FALSE
                           ELSE IF id <= G2D_FORMAT_YUV411_PLANAR THEN TRUE
                           ELSE Bit("ALPHA_MODE") \subseteq r0["BLD_OUT_COLOR"]
                /\ Bit("PREMUL_EN") \subseteq R["BLD_OUT_COLOR"] <=> f.premult_alpha

\* a run for a YUV id on a frame without premultiplied alpha: g2d_bld_cs_set
\* has set the colourspace bit and g2d_wb_set has cleared the premultiply bit
C21_Witness ==
    /\ GeoRan
    /\ act.val \in Ids420
    /\ ~ctx[1].dst.premult_alpha
    /\ ctx[1].dst.alpha_bld_mode = 2
    /\ RegsAfter(StaleRegs, wlog)["BLD_OUT_COLOR"] = Bit("ALPHA_MODE")
    /\ V0_ATTCTL_FILLCOLOR_EN \subseteq RegsAfter(StaleRegs, wlog)["V0_ATTCTL"]
    /\ SetsStart(wlog[Len(wlog)])

\* the register file with the pending and the enable bit of G2D_MIXER_INT set
PendingRegs ==
    [regs EXCEPT !["G2D_MIXER_INT"] =
                     G2D_MIXER_INT_IRQ_PENDING \cup G2D_MIXER_INT_FINISH_IRQ_EN]

\* C22: the handler running while no context is current returns IRQ_NONE
\* without any register access: G2D_MIXER_INT and every other register are
\* left as they were, no buffer is removed or done and no job is finished;
\* the same with the pending and the enable bit set and with the queues of
\* any context
C22_IrqWithoutJob ==
    [][(act'.op = "irq" /\ curr_ctx = 0) =>
           /\ act'.ret = "IRQ_NONE"
           /\ wlog' = << >>
           /\ regs' = regs /\ hw' = hw
           /\ vq' = vq
           /\ act'.src_done = << >> /\ act'.dst_done = << >> /\ act'.finished = 0
           /\ curr_ctx' = 0 /\ job_queue' = job_queue /\ job' = job
           /\ \A c \in Ctxs :
                  LET r == g2d_irq(0, PendingRegs, vq[c])
                  IN  r.ret = "IRQ_NONE" /\ r.log = << >> /\ ~r.finish
                      /\ r.src = 0 /\ r.dst = 0]_vars

\* the handler has run with no current context while buffers were queued
C22_Witness ==
    /\ act.op = "irq" /\ act.c = 0 /\ act.ret = "IRQ_NONE"
    /\ curr_ctx = 0
    /\ \E c \in Ctxs, t \in Types : vq[c][t].rdy # << >>

----------------------------------------------------------------------------
(* Properties of the configuration calls *)

\* the frame a selection call with a valid type and target addresses
SelFrame == IF act.type = "OUTPUT" THEN "src" ELSE "dst"

ValidSelCall ==
    /\ act.op = "s_selection"
    /\ \/ act.type = "OUTPUT" /\ act.target = "CROP"
       \/ act.type = "CAPTURE" /\ act.target = "COMPOSE"

\* C7: on a frame of W x H, S_SELECTION of (0, 0, W, H) is accepted and
\* S_SELECTION of (W, 0, 1, 1) is rejected with an error
C7_BoundaryCases ==
    ValidSelCall =>
        LET f == ctx[act.c][SelFrame]
        IN  /\ act.sel = Rect(0, 0, f.width, f.height) => act.ret = "0"
            /\ act.sel = Rect(f.width, 0, 1, 1) => act.ret # "0"

\* the selection sel lies in a frame of width x height by the bounds of
\* g2d_try_selection, the sums taken as integers and not modulo 2^32
SelInFrame(sel, width, height) ==
    /\ sel.left >= 0 /\ sel.top >= 0
    /\ sel.left <= width - 1 /\ sel.top <= height - 1
    /\ ~Ugt(sel.width, width - 1 - sel.left)
    /\ ~Ugt(sel.height, height - 1 - sel.top)

\* C8: after open and any S_FMT and S_SELECTION calls, the stored selection of
\* each frame satisfies left >= 0, top >= 0, left <= width - 1,
\* top <= height - 1, left + sel.width <= width - 1 and
\* top + sel.height <= height - 1 for the frame's current width and height
C8_SelectionInvariant ==
    \A c \in Ctxs : open[c] =>
        /\ SelInFrame(ctx[c].src.sel, ctx[c].src.width, ctx[c].src.height)
        /\ SelInFrame(ctx[c].dst.sel, ctx[c].dst.width, ctx[c].dst.height)

AlignmentIds == {"IN_ALIGNMENT", "OUT_ALIGNMENT"}

\* C9: a rejected configuration call leaves the configuration as it was: a
\* failed S_SELECTION changes no selection, an S_FMT failing with a wrong type
\* or a busy queue changes neither frame, and a rejected alignment changes
\* neither alignment
C9_RejectedCallChangesNothing ==
    [][\A c \in Ctxs :
         /\ (act'.op = "s_selection" /\ act'.c = c /\ act'.ret # "0") =>
                /\ ctx'[c].src.sel = ctx[c].src.sel
                /\ ctx'[c].dst.sel = ctx[c].dst.sel
         /\ (act'.op = "s_fmt" /\ act'.c = c /\ act'.ret \in {"-EINVAL", "-EBUSY"}) =>
                /\ ctx'[c].src = ctx[c].src
                /\ ctx'[c].dst = ctx[c].dst
         /\ (act'.op = "s_ctrl" /\ act'.c = c /\ act'.type \in AlignmentIds
                 /\ act'.ret # "0") =>
                /\ ctx'[c].src.alignment = ctx[c].src.alignment
                /\ ctx'[c].dst.alignment = ctx[c].dst.alignment]_vars

C9_Witness ==
    /\ act.op = "s_fmt" /\ act.ret = "-EBUSY"
    /\ ctx[act.c].dst.width # 16

====
